---- MODULE Spec2Model ----
(***************************************************************************)
(* Model of the polytope engine of cora_python: point containment          *)
(* (contSet/polytope/contains_.py) and Minkowski addition                  *)
(* (contSet/polytope/plus.py).                                             *)
(*                                                                         *)
(* Numbers are integers.  A tolerance tol stands for every real tolerance  *)
(* in [tol, tol+1): on integer data r > t and r > floor(t) agree.  The     *)
(* fixed tolerance 1e-10 of plus and the default 1e-12 of contains_ are 0. *)
(*                                                                         *)
(* A polytope object is a record                                           *)
(*   n      ambient dimension                                              *)
(*   isH    _isHRep; A, b are the inequality rows and offsets              *)
(*   hasAe  "Ae is not None"; Ae, be are the equality rows and offsets     *)
(*   isV    _isVRep; V is the sequence of columns of the vertex matrix     *)
(* An absent part is the empty sequence with its flag FALSE.               *)
(***************************************************************************)
EXTENDS Integers, Sequences, FiniteSets, TLC

VARIABLES p1, p2, S, tol, pc, out, h1, h2

vars == <<p1, p2, S, tol, pc, out, h1, h2>>

(***************************************************************************)
(* Bounds of the model.                                                    *)
(***************************************************************************)
\* largest tolerance a caller of contains_ passes
MaxTol == 1
\* largest magnitude of a coordinate of a point operand
MaxPt == 1

\* magnitudes of the offsets b, be of the generated polytopes
Off == {-1, 0, 1}
\* coefficients of the generated constraint rows
Coef == {-1, 0, 1}

(***************************************************************************)
(* Linear algebra on tuples.                                               *)
(***************************************************************************)
Range(s) == {s[i] : i \in 1..Len(s)}

\* all tuples of length n over the set D
Tuples(n, D) == [1..n -> D]

\* all sequences over D of length lo..hi
SeqsOf(D, lo, hi) == UNION {[1..k -> D] : k \in lo..hi}

Abs(x) == IF x < 0 THEN -x ELSE x

\* a @ x for one row a
Dot(a, x) ==
  LET F[i \in 0..Len(a)] == IF i = 0 THEN 0 ELSE F[i - 1] + a[i] * x[i]
  IN  F[Len(a)]

VecAdd(x, y) == [i \in 1..Len(x) |-> x[i] + y[i]]
VecSub(x, y) == [i \in 1..Len(x) |-> x[i] - y[i]]
VecNeg(x) == [i \in 1..Len(x) |-> -x[i]]
Zeros(n) == [i \in 1..n |-> 0]

\* np.max of a non-empty vector
NpMax(v) == CHOOSE m \in Range(v) : \A x \in Range(v) : x <= m

(***************************************************************************)
(* Polytope objects.                                                       *)
(***************************************************************************)
NoObj == [kind |-> "none"]

HPoly(n, A, b) ==
  [kind |-> "polytope", n |-> n, isH |-> TRUE, A |-> A, b |-> b,
   hasAe |-> FALSE, Ae |-> <<>>, be |-> <<>>, isV |-> FALSE, V |-> <<>>]

HPolyEq(n, A, b, Ae, be) ==
  [kind |-> "polytope", n |-> n, isH |-> TRUE, A |-> A, b |-> b,
   hasAe |-> TRUE, Ae |-> Ae, be |-> be, isV |-> FALSE, V |-> <<>>]

VPoly(n, V) ==
  [kind |-> "polytope", n |-> n, isH |-> FALSE, A |-> <<>>, b |-> <<>>,
   hasAe |-> FALSE, Ae |-> <<>>, be |-> <<>>, isV |-> TRUE, V |-> V]

\* Polytope.empty(n): the single row 0*x <= -1
PolyEmpty(n) == HPoly(n, <<Zeros(n)>>, <<-1>>)

\* Polytope.Inf(n): no constraint at all
PolyInf(n) == HPoly(n, <<>>, <<>>)

\* origin(n): x_i <= 0 for every i, and -x_1 - ... - x_n <= 0
PolyOrigin(n) ==
  HPoly(n,
        [i \in 1..(n + 1) |->
           IF i <= n THEN [j \in 1..n |-> IF j = i THEN 1 ELSE 0]
                     ELSE [j \in 1..n |-> -1]],
        [i \in 1..(n + 1) |-> 0])

(***************************************************************************)
(* contains_.py, _contains_pointcloud for one column `point`.              *)
(***************************************************************************)
\* a sign slip in the residual: A @ point + b
IneqViolationsPlus(P, point) ==
  [i \in 1..Len(P.A) |-> Dot(P.A[i], point) + P.b[i]]

\* violations = P.A @ point - P.b
IneqViolations(P, point) ==
  [i \in 1..Len(P.A) |-> Dot(P.A[i], point) - P.b[i]]

\* the equality residual without np.abs
EqViolationsSigned(P, point) ==
  [j \in 1..Len(P.Ae) |-> Dot(P.Ae[j], point) - P.be[j]]

\* eq_violations = np.abs(P.Ae @ point - P.be)
EqViolations(P, point) ==
  [j \in 1..Len(P.Ae) |-> Abs(Dot(P.Ae[j], point) - P.be[j])]

\* the loop body of lines 119-153: is_contained for one column
PointContained(P, point, t) ==
  LET afterIneq ==
        IF Len(P.A) > 0
          THEN IF NpMax(IneqViolations(P, point)) > t THEN FALSE ELSE TRUE
          ELSE TRUE
  IN  IF P.hasAe /\ Len(P.Ae) > 0
        THEN IF NpMax(EqViolations(P, point)) > t THEN FALSE ELSE afterIneq
        ELSE afterIneq

\* contains_(P, S, 'exact', tol) for an array S holding one column
ContainsResult(P, point, t) ==
  IF ~P.isH
    THEN [kind |-> "error", id |-> "CORA:notSupported"]
    ELSE [kind |-> "contains", res |-> PointContained(P, point, t), cert |-> TRUE]

(***************************************************************************)
(* Inputs of the containment check.                                        *)
(***************************************************************************)
Rows(n) == Tuples(n, Coef)

\* H-polytopes of dimension n with rA inequality rows at most and, when they
\* carry equality constraints, rE equality rows at most
HPolys(n, rA, rE) ==
  {HPoly(n, A, b) :
     <<A, b>> \in UNION {Tuples(k, Rows(n)) \X Tuples(k, Off) : k \in 0..rA}}
  \cup
  UNION {{HPolyEq(n, A, b, Ae, be) :
            <<A, b>> \in UNION {Tuples(k, Rows(n)) \X Tuples(k, Off) : k \in 0..rA}} :
         <<Ae, be>> \in UNION {Tuples(k, Rows(n)) \X Tuples(k, Off) : k \in 0..rE}}

ContainsPolys ==
  {PolyEmpty(0), PolyInf(0)}
  \cup HPolys(1, 2, 1)
  \cup HPolys(2, 1, 1)
  \cup {PolyEmpty(2), PolyOrigin(2), PolyInf(2)}

Points(n) == Tuples(n, -MaxPt..MaxPt)

InitContains ==
  /\ p1 \in ContainsPolys
  /\ p2 = NoObj
  /\ S \in Points(p1.n)
  /\ tol \in 0..MaxTol
  /\ pc = "start"
  /\ out = NoObj
  /\ h1 = p1
  /\ h2 = NoObj

\* res, cert, scaling = contains_(P, S, 'exact', tol)
Contains ==
  /\ pc = "start"
  /\ p1.kind = "polytope"
  /\ p2.kind = "none"
  /\ out' = ContainsResult(p1, S, tol)
  /\ pc' = "done"
  /\ UNCHANGED <<p1, p2, S, tol, h1, h2>>

NextContains == Contains

SpecContains == InitContains /\ [][NextContains]_vars

ContainsDone == pc = "done" /\ out.kind = "contains"

\* every inequality row of P holds at x within t, and every equality row too
SatisfiesWithin(P, x, t) ==
  /\ \A i \in 1..Len(P.A) : Dot(P.A[i], x) - P.b[i] <= t
  /\ \A j \in 1..Len(P.Ae) : /\ Dot(P.Ae[j], x) - P.be[j] <= t
                              /\ P.be[j] - Dot(P.Ae[j], x) <= t

\* C1: contains_ reports the point as contained iff no inequality row has
\* A_i*p - b_i > tol and no equality row has |Ae_j*p - be_j| > tol.
C1_ContainedIffNoViolation ==
  ContainsDone => (out.res <=> SatisfiesWithin(p1, S, tol))

\* C1 witness: a point that satisfies both inequality rows and is rejected
\* because of the equality row alone.
C1_Witness ==
  /\ ContainsDone
  /\ Len(p1.A) = 2
  /\ \A i \in 1..Len(p1.A) : Dot(p1.A[i], S) - p1.b[i] <= tol
  /\ p1.hasAe /\ Len(p1.Ae) = 1
  /\ p1.be[1] - Dot(p1.Ae[1], S) > tol
  /\ ~out.res

IsCanonicalEmpty(P) == P.kind = "polytope" /\ P = PolyEmpty(P.n)

\* C2 as stated: the canonical empty polytope contains no point, for every
\* tolerance the caller passes.
C2_EmptyContainsNothingAnyTol ==
  (ContainsDone /\ IsCanonicalEmpty(p1)) => ~out.res

\* C2 amended: for every tolerance below 1 the canonical empty polytope
\* contains no point of its dimension, whatever n >= 0 is.
C2_EmptyContainsNothing ==
  (ContainsDone /\ IsCanonicalEmpty(p1) /\ tol < 1) => ~out.res

\* C2 witness: the origin of dimension 2 is checked against the canonical
\* empty polytope with a tolerance below 1 and rejected.
C2_Witness ==
  /\ ContainsDone /\ IsCanonicalEmpty(p1) /\ p1.n = 2
  /\ S = Zeros(2) /\ tol = 0 /\ ~out.res


(***************************************************************************)
(* The sets the objects describe, on the integer grid.  The generated      *)
(* polytopes have integer vertices and lie, when bounded, well inside the  *)
(* grid, so that emptiness, boundedness and being the origin are decided   *)
(* by the grid points.                                                     *)
(***************************************************************************)
\* half-width of the grid on which sets are compared
GridMax == 3

SemGrid(n) == Tuples(n, -GridMax..GridMax)

\* x satisfies the H-representation of P exactly
SatH(P, x) == SatisfiesWithin(P, x, 0)

MinOf(T) == CHOOSE m \in T : \A x \in T : m <= x
MaxOf(T) == CHOOSE m \in T : \A x \in T : x <= m

\* x lies in the convex hull of the columns of V, for a vertex matrix whose
\* hull is an axis-aligned box (any vertex matrix of dimension 1)
InHull(V, x) ==
  /\ Len(V) > 0
  /\ \A i \in 1..Len(x) :
       /\ MinOf({V[k][i] : k \in 1..Len(V)}) <= x[i]
       /\ x[i] <= MaxOf({V[k][i] : k \in 1..Len(V)})

\* x is a point of the set that the object X describes; a projection is the
\* set of the z for which some y completes z to a point of the lifted system
Member(X, x) ==
  IF X.kind = "projection"
    THEN \E y \in SemGrid(X.n) : SatH(X.high, x \o y)
    ELSE IF X.isH THEN SatH(X, x) ELSE InHull(X.V, x)

SetOf(X) == {x \in SemGrid(X.n) : Member(X, x)}

(***************************************************************************)
(* representsa, vertices and constraints of the polytope class.            *)
(***************************************************************************)
\* P.representsa('fullspace', tol): every constraint is trivially fulfilled
RepresentsFullspace(P) ==
  /\ P.isH
  /\ \A i \in 1..Len(P.A) : P.A[i] = Zeros(P.n) /\ P.b[i] >= 0
  /\ \A j \in 1..Len(P.Ae) : P.Ae[j] = Zeros(P.n) /\ P.be[j] = 0

\* P.representsa('emptySet', tol)
RepresentsEmpty(P) ==
  IF P.isH THEN \A x \in SemGrid(P.n) : ~SatH(P, x) ELSE Len(P.V) = 0

\* P.representsa('origin', tol)
RepresentsOrigin(P) ==
  IF P.isH
    THEN \A x \in SemGrid(P.n) : SatH(P, x) <=> x = Zeros(P.n)
    ELSE Len(P.V) > 0 /\ \A k \in 1..Len(P.V) : P.V[k] = Zeros(P.n)

\* the set described by the H-representation of P is bounded
BoundedH(P) ==
  \A x \in SemGrid(P.n) :
    SatH(P, x) => \A i \in 1..P.n : Abs(x[i]) < GridMax

SetToSeq(T) == CHOOSE s \in [1..Cardinality(T) -> T] : Range(s) = T

\* vertices(P) of a bounded H-polytope: its extreme points
VerticesOf(P) ==
  LET pts == {x \in SemGrid(P.n) : SatH(P, x)}
      ext == {x \in pts : ~\E y \in pts : \E z \in pts :
                 y # z /\ \A i \in 1..P.n : 2 * x[i] = y[i] + z[i]}
  IN  SetToSeq(ext)

UnitRow(n, i, sgn) == [j \in 1..n |-> IF j = i THEN sgn ELSE 0]

\* constraints(P): P itself when it has an H-representation; otherwise the
\* halfspaces of the hull of the vertices (an axis-aligned box), or the
\* canonical infeasible row for a vertex matrix without columns
Constraints(P) ==
  IF P.isH THEN P
  ELSE IF Len(P.V) = 0
    THEN [P EXCEPT !.isH = TRUE, !.A = <<Zeros(P.n)>>, !.b = <<-1>>]
    ELSE [P EXCEPT
            !.isH = TRUE,
            !.A = [r \in 1..(2 * P.n) |->
                     UnitRow(P.n, (r + 1) \div 2, IF r % 2 = 1 THEN 1 ELSE -1)],
            !.b = [r \in 1..(2 * P.n) |->
                     IF r % 2 = 1
                       THEN MaxOf({P.V[k][(r + 1) \div 2] : k \in 1..Len(P.V)})
                       ELSE -MinOf({P.V[k][(r + 1) \div 2] : k \in 1..Len(P.V)})]]

\* the states an operand can be in after the representsa calls of plus: the
\* calls may compute and store the representation the object lacks
AfterChecks(P) ==
  {P}
  \cup (IF P.isH /\ ~P.isV /\ BoundedH(P)
          THEN {[P EXCEPT !.isV = TRUE, !.V = VerticesOf(P)]} ELSE {})
  \cup (IF P.isV /\ ~P.isH THEN {Constraints(P)} ELSE {})

(***************************************************************************)
(* plus.py.                                                                *)
(***************************************************************************)
\* Polytope(A, b, Ae, be), Ae and be possibly None
NewHPoly(n, A, b, hasAe, Ae, be) ==
  [kind |-> "polytope", n |-> n, isH |-> TRUE, A |-> A, b |-> b,
   hasAe |-> hasAe, Ae |-> Ae, be |-> be, isV |-> FALSE, V |-> <<>>]

\* lines 38-42: Ae = np.block([[Ae2, Z_Ae]]) with Z_Ae = zeros(rows(Ae2), n)
LiftedEqOnlyP2(P2, n) ==
  [j \in 1..Len(P2.Ae) |-> P2.Ae[j] \o Zeros(n)]

\* the lifted inequality block with the sign of the second block lost
LiftedIneqNoSign(P1, P2, n) ==
  [i \in 1..(Len(P2.A) + Len(P1.A)) |->
     IF i <= Len(P2.A)
       THEN P2.A[i] \o P2.A[i]
       ELSE Zeros(n) \o P1.A[i - Len(P2.A)]]

\* lines 22-24: A = np.block([[A2, -A2], [Z_A, A1]])
LiftedIneq(P1, P2, n) ==
  [i \in 1..(Len(P2.A) + Len(P1.A)) |->
     IF i <= Len(P2.A)
       THEN P2.A[i] \o VecNeg(P2.A[i])
       ELSE Zeros(n) \o P1.A[i - Len(P2.A)]]

\* lines 19-45: P_highdim, the system in the 2n variables (z, y)
LiftedSystem(P1, P2, n) ==
  LET A == LiftedIneq(P1, P2, n)
      b == P2.b \o P1.b
  IN  IF P1.hasAe /\ P2.hasAe
        THEN NewHPoly(2 * n, A, b, TRUE,
               [j \in 1..(Len(P2.Ae) + Len(P1.Ae)) |->
                  IF j <= Len(P2.Ae)
                    THEN P2.Ae[j] \o VecNeg(P2.Ae[j])
                    ELSE Zeros(n) \o P1.Ae[j - Len(P2.Ae)]],
               P2.be \o P1.be)
      ELSE IF P1.hasAe
        THEN NewHPoly(2 * n, A, b, TRUE,
               [j \in 1..Len(P1.Ae) |-> Zeros(n) \o P1.Ae[j]], P1.be)
      ELSE IF P2.hasAe
        THEN NewHPoly(2 * n, A, b, TRUE, LiftedEqOnlyP2(P2, n), P2.be)
      ELSE NewHPoly(2 * n, A, b, FALSE, <<>>, <<>>)

\* _aux_plus_Hpoly_Hpoly: project(P_highdim, [1..n])
AuxPlusHpolyHpoly(P1, P2, n) ==
  [kind |-> "projection", n |-> n, high |-> LiftedSystem(P1, P2, n)]

\* the vertex sum pairing the columns instead of crossing them
AuxPlusVpolyVpolyZip(P1, P2, n) ==
  VPoly(n, [k \in 1..(IF Len(P1.V) <= Len(P2.V) THEN Len(P1.V) ELSE Len(P2.V)) |->
              VecAdd(P1.V[k], P2.V[k])])

\* _aux_plus_Vpoly_Vpoly: column i*num_v1 + j is V1[:, j] + V2[:, i]
AuxPlusVpolyVpoly(P1, P2, n) ==
  VPoly(n, [k \in 1..(Len(P1.V) * Len(P2.V)) |->
              VecAdd(P1.V[((k - 1) % Len(P1.V)) + 1],
                     P2.V[((k - 1) \div Len(P1.V)) + 1])])

\* priv_plus_minus_vector: b + A @ v and be + Ae @ v, A and Ae as they are
PrivPlusMinusVector(P, v) ==
  NewHPoly(P.n, P.A, [i \in 1..Len(P.A) |-> P.b[i] + Dot(P.A[i], v)],
           P.hasAe, P.Ae, [j \in 1..Len(P.Ae) |-> P.be[j] + Dot(P.Ae[j], v)])

\* shape of an array: cols holds its columns, a one-dimensional array is one
\* column with ndim = 1
NumRows(X) == Len(X.cols[1])
NumCols(X) == Len(X.cols)

PlusOut(path, ret, val) == [kind |-> "plus", path |-> path, ret |-> ret, val |-> val]
ErrorOut(id) == [kind |-> "error", id |-> id]

\* the translation taking the vertex branch whenever there are vertices
AuxPlusPolyPointVFirst(P, X) ==
  IF NumCols(X) > 1 THEN ErrorOut("CORA:noops")
  ELSE IF NumRows(X) # P.n THEN ErrorOut("CORA:notSupported")
  ELSE IF P.isV
    THEN PlusOut("point", "new",
                 VPoly(P.n, [k \in 1..Len(P.V) |-> VecAdd(P.V[k], X.cols[1])]))
  ELSE PlusOut("point", "new", PrivPlusMinusVector(P, X.cols[1]))

\* _aux_plus_poly_point
AuxPlusPolyPoint(P, X) ==
  IF NumCols(X) > 1 THEN ErrorOut("CORA:noops")
  ELSE IF NumRows(X) # P.n THEN ErrorOut("CORA:notSupported")
  ELSE IF P.isH
    THEN PlusOut("point", "new", PrivPlusMinusVector(P, X.cols[1]))
  ELSE IF P.isV
    THEN PlusOut("point", "new",
                 VPoly(P.n, [k \in 1..Len(P.V) |-> VecAdd(P.V[k], X.cols[1])]))
  ELSE PlusOut("point", "new", PrivPlusMinusVector(Constraints(P), X.cols[1]))

\* equal_dim_check(p1, p2): the ambient dimensions of the operands agree
EqualDim(P, X) ==
  IF X.kind = "polytope" THEN P.n = X.n ELSE NumRows(X) = P.n

\* the representation flags read after the special-case checks
HasVNow(Pentry, Pnow) == Pnow.isV
HasHNow(Pentry, Pnow) == Pnow.isH

\* lines 113-116: the flags are read on entry, before the representsa calls
HasVOrig(Pentry, Pnow) == Pentry.isV
HasHOrig(Pentry, Pnow) == Pentry.isH

\* the origin shortcut handing back the origin operand itself
ReturnFirst(Q1, Q2) == PlusOut("origin1", "p1", Q1)

\* lines 123-124: p1 represents the origin, p2 is returned
WhenFirstIsOrigin(Q1, Q2) == PlusOut("origin1", "p2", Q2)

\* lines 125-126: p2 represents the origin, p1 is returned
WhenSecondIsOrigin(Q1, Q2) == PlusOut("origin2", "p1", Q1)

\* lines 111-141 of plus for two polytopes; P1, P2 are the operands on entry,
\* Q1, Q2 the same objects after the representsa calls
PlusPolytopes(P1, P2, Q1, Q2) ==
  LET n == P1.n
  IN  IF RepresentsFullspace(P1) \/ RepresentsFullspace(P2)
        THEN PlusOut("fullspace", "new", PolyInf(n))
      ELSE IF RepresentsEmpty(P1) \/ RepresentsEmpty(P2)
        THEN PlusOut("empty", "new", PolyEmpty(n))
      ELSE IF RepresentsOrigin(P1) THEN WhenFirstIsOrigin(Q1, Q2)
      ELSE IF RepresentsOrigin(P2) THEN WhenSecondIsOrigin(Q1, Q2)
      ELSE IF HasVOrig(P1, Q1) /\ HasVOrig(P2, Q2)
        THEN PlusOut("VV", "new", AuxPlusVpolyVpoly(Q1, Q2, n))
      ELSE IF HasHOrig(P1, Q1) /\ HasHOrig(P2, Q2)
        THEN PlusOut("HH", "new", AuxPlusHpolyHpoly(Q1, Q2, n))
      ELSE PlusOut("convHH", "new",
                   AuxPlusHpolyHpoly(Constraints(Q1), Constraints(Q2), n))

\* lines 143-156 of plus for a polytope and an array
PlusArray(P, X) ==
  IF RepresentsFullspace(P) THEN PlusOut("fullspace", "new", PolyInf(P.n))
  ELSE IF X.ndim = 2 /\ NumCols(X) = 1 THEN AuxPlusPolyPoint(P, X)
  ELSE ErrorOut("CORA:noops")

(***************************************************************************)
(* Operands of plus.                                                       *)
(***************************************************************************)
\* the box [lo1,hi1] x ... x [lon,hin] in the row order e1, -e1, e2, -e2, ...
BoxPoly(lo, hi) ==
  HPoly(Len(lo),
        [r \in 1..(2 * Len(lo)) |->
           UnitRow(Len(lo), (r + 1) \div 2, IF r % 2 = 1 THEN 1 ELSE -1)],
        [r \in 1..(2 * Len(lo)) |->
           IF r % 2 = 1 THEN hi[(r + 1) \div 2] ELSE -lo[(r + 1) \div 2]])

\* the non-empty boxes with bounds in Off
Boxes(n) ==
  {BoxPoly(lo, hi) :
     <<lo, hi>> \in {q \in Tuples(n, Off) \X Tuples(n, Off) :
                       \A i \in 1..n : q[1][i] <= q[2][i]}}

WithEq(P, Ae, be) == [P EXCEPT !.hasAe = TRUE, !.Ae = Ae, !.be = be]

\* P with the vertices of its H-representation stored as well
WithVertices(P) == [P EXCEPT !.isV = TRUE, !.V = VerticesOf(P)]

\* dimension 1: no row, one row, or an upper and a lower bound (empty when
\* the bounds cross), each with or without equality constraints
IneqParts1 ==
  {HPoly(1, <<>>, <<>>)}
  \cup {HPoly(1, <<<<a>>>>, <<c>>) : <<a, c>> \in Coef \X Off}
  \cup {HPoly(1, <<<<1>>, <<-1>>>>, <<hi, -lo>>) : <<lo, hi>> \in Off \X Off}

HOnly1 ==
  IneqParts1
  \cup {WithEq(P, <<>>, <<>>) : P \in IneqParts1}
  \cup UNION {{WithEq(P, <<<<a>>>>, <<c>>) : P \in IneqParts1} :
              <<a, c>> \in ({1} \X Off) \cup ({0} \X {0, 1})}

VOnly1 == {VPoly(1, V) : V \in SeqsOf(Tuples(1, Off), 0, 2)}

Pool1 == HOnly1 \cup VOnly1 \cup {WithVertices(P) : P \in Boxes(1)}

\* dimension 2: the degenerate constructors, boxes, a halfspace, a trivially
\* true row, sets with an equality constraint, and vertex matrices
HOnly2 ==
  {PolyEmpty(2), PolyInf(2), PolyOrigin(2)}
  \cup {B \in Boxes(2) : B.b[1] >= 0 /\ B.b[2] >= 0 /\ B.b[3] >= 0 /\ B.b[4] >= 0}
  \cup {HPoly(2, <<<<1, 0>>>>, <<1>>), HPoly(2, <<<<0, 0>>>>, <<1>>)}
  \cup {WithEq(BoxPoly(<<-1, -1>>, <<1, 1>>), <<<<1, 0>>>>, <<0>>),
        WithEq(PolyInf(2), <<<<0, 1>>>>, <<1>>),
        WithEq(PolyInf(2), <<<<1, 0>>, <<0, 1>>>>, <<1, -1>>)}

VOnly2 ==
  {VPoly(2, V) : V \in {<<>>, <<<<0, 0>>>>, <<<<0, 0>>, <<0, 0>>>>, <<<<1, -1>>>>,
                        <<<<0, 0>>, <<1, 0>>>>, <<<<0, -1>>, <<0, 1>>, <<0, 0>>>>,
                        <<<<0, 0>>, <<1, 0>>, <<0, 1>>, <<1, 1>>>>}}

Pool2 ==
  HOnly2 \cup VOnly2
  \cup {WithVertices(BoxPoly(<<-1, -1>>, <<1, 1>>)), WithVertices(PolyOrigin(2))}

\* arrays with r rows: a column, a one-dimensional array, a two-column matrix
Arrays(r) ==
  {[kind |-> "ndarray", ndim |-> d, cols |-> <<c>>] :
     <<d, c>> \in {1, 2} \X Tuples(r, -MaxPt..MaxPt)}
  \cup {[kind |-> "ndarray", ndim |-> 2, cols |-> <<c, VecNeg(c)>>] :
          c \in Tuples(r, -MaxPt..MaxPt)}

InitPlus ==
  /\ \/ p1 \in Pool1 /\ p2 \in Pool1
     \/ p1 \in Pool2 /\ p2 \in Pool2
     \/ p1 \in {PolyEmpty(1), PolyOrigin(1)} /\ p2 \in Pool2
     \/ p1 \in Pool1 \cup Pool2 /\ p2 \in Arrays(1) \cup Arrays(2)
  /\ S = <<>>
  /\ tol = 0
  /\ pc = "start"
  /\ out = NoObj
  /\ h1 = p1
  /\ h2 = p2

\* plus(p1, p2) for two polytopes.  The fullspace checks read the stored
\* representation; the emptySet and origin checks that follow may store the
\* representation an operand lacks (p2 is not examined when p1 is empty).
PlusSets ==
  /\ pc = "start"
  /\ p1.kind = "polytope" /\ p2.kind = "polytope"
  /\ IF ~EqualDim(p1, p2)
       THEN /\ out' = ErrorOut("CORA:dimensionMismatch")
            /\ UNCHANGED <<h1, h2>>
       ELSE /\ h1' \in (IF RepresentsFullspace(p1) \/ RepresentsFullspace(p2)
                          THEN {p1} ELSE AfterChecks(p1))
            /\ h2' \in (IF \/ RepresentsFullspace(p1) \/ RepresentsFullspace(p2)
                           \/ RepresentsEmpty(p1)
                          THEN {p2} ELSE AfterChecks(p2))
            /\ out' = PlusPolytopes(p1, p2, h1', h2')
  /\ pc' = "done"
  /\ UNCHANGED <<p1, p2, S, tol>>

\* plus(p1, p2) for a polytope and a numeric array
PlusPoint ==
  /\ pc = "start"
  /\ p1.kind = "polytope" /\ p2.kind = "ndarray"
  /\ out' = IF ~EqualDim(p1, p2)
              THEN ErrorOut("CORA:dimensionMismatch")
              ELSE PlusArray(p1, p2)
  /\ pc' = "done"
  /\ UNCHANGED <<p1, p2, S, tol, h1, h2>>

NextPlus == PlusSets \/ PlusPoint

SpecPlus == InitPlus /\ [][NextPlus]_vars

PlusDone == pc = "done" /\ out.kind = "plus"

\* the call was plus(p1, p2) for two polytopes of equal dimension
SetsCall == pc = "done" /\ p2.kind = "polytope" /\ p1.n = p2.n

\* the operand as _aux_plus_Hpoly_Hpoly receives it
HArg(P) == Constraints(P)

\* z = x1 + x2 for some x1 satisfying the constraints of P1 and x2 those of P2
InMinkowskiSum(P1, P2, z) ==
  \E x1 \in SemGrid(P1.n) : SatH(P1, x1) /\ SatH(P2, VecSub(z, x1))

\* C3 as stated: on the H/H path the projected lifted system is exactly the
\* Minkowski sum, in each of the four combinations of equality constraints.
C3_LiftedIsMinkowskiSum ==
  (PlusDone /\ out.path = "HH") =>
    \A z \in SemGrid(p1.n) :
      Member(out.val, z) <=> InMinkowskiSum(HArg(p1), HArg(p2), z)

\* the bounds of a box read off its offsets
BoxLo(B, i) == -B.b[2 * i]
BoxHi(B, i) == B.b[2 * i - 1]

IsBox(P) == P.kind = "polytope" /\ P \in Boxes(P.n)

\* C4: plus of two boxes in H-representation without equality constraints
\* is the box whose bounds are the sums of the operands' bounds.
C4_BoxSum ==
  (PlusDone /\ IsBox(p1) /\ IsBox(p2) /\ p1.n = p2.n) =>
    \A z \in SemGrid(p1.n) :
      Member(out.val, z) <=>
        \A i \in 1..p1.n : /\ BoxLo(p1, i) + BoxLo(p2, i) <= z[i]
                           /\ z[i] <= BoxHi(p1, i) + BoxHi(p2, i)

\* C4 witness: the unit box of dimension 2 added to itself on the H/H path
\* gives a set holding the corner (2,-2) and not (3,0).
C4_Witness ==
  /\ PlusDone /\ out.path = "HH"
  /\ p1 = BoxPoly(<<-1, -1>>, <<1, 1>>) /\ p2 = p1
  /\ Member(out.val, <<2, -2>>) /\ ~Member(out.val, <<3, 0>>)

\* C5 as stated: if either operand represents the empty set, plus returns
\* the empty set of dimension n, whatever the other operand is.
C5_EmptyAbsorbs ==
  (SetsCall /\ (RepresentsEmpty(p1) \/ RepresentsEmpty(p2))) =>
    /\ out.kind = "plus"
    /\ out.val.n = p1.n
    /\ SetOf(out.val) = {}

\* the representations P holds are found, as they are, in the object X
RepsKept(P, X) ==
  /\ X.kind = "polytope"
  /\ P.isH => /\ X.isH /\ X.A = P.A /\ X.b = P.b
              /\ X.hasAe = P.hasAe /\ X.Ae = P.Ae /\ X.be = P.be
  /\ P.isV => X.isV /\ X.V = P.V

Ordinary(P) == ~RepresentsEmpty(P) /\ ~RepresentsFullspace(P)

\* C6 as stated: plus(P, O) and plus(O, P) with O the origin describe the set
\* of P, and return P itself when P is neither empty nor the full space.
C6_OriginIdentityReturnsP ==
  SetsCall =>
    /\ RepresentsOrigin(p2) =>
         /\ out.kind = "plus" /\ SetOf(out.val) = SetOf(p1)
         /\ Ordinary(p1) => RepsKept(p1, out.val)
    /\ RepresentsOrigin(p1) =>
         /\ out.kind = "plus" /\ SetOf(out.val) = SetOf(p2)
         /\ Ordinary(p2) => RepsKept(p2, out.val)

\* C6 amended: the result describes the set of P; P itself is returned when
\* it is neither empty nor the full space, except that plus(P, O) with P
\* representing the origin as well returns the second operand O.
C6_OriginIdentity ==
  SetsCall =>
    /\ RepresentsOrigin(p2) =>
         /\ out.kind = "plus" /\ SetOf(out.val) = SetOf(p1)
         /\ (Ordinary(p1) /\ ~RepresentsOrigin(p1)) =>
              out.ret = "p1" /\ RepsKept(p1, out.val)
         /\ (Ordinary(p1) /\ RepresentsOrigin(p1)) =>
              out.ret = "p2" /\ RepsKept(p2, out.val)
    /\ RepresentsOrigin(p1) =>
         /\ out.kind = "plus" /\ SetOf(out.val) = SetOf(p2)
         /\ Ordinary(p2) => out.ret = "p2" /\ RepsKept(p2, out.val)

\* C6 witness: a segment with an equality constraint is added to the
\* origin from the left, and comes back with a vertex matrix stored in it.
C6_Witness ==
  /\ SetsCall /\ PlusDone
  /\ p1 = PolyOrigin(2)
  /\ p2 = WithEq(BoxPoly(<<-1, -1>>, <<1, 1>>), <<<<1, 0>>>>, <<0>>)
  /\ out.ret = "p2" /\ out.val.isV /\ RepsKept(p2, out.val)

\* the vertex matrix X.V holds, once for every pair, the sum of a column of
\* V1 and a column of V2, the columns of V1 running fastest
IsPairwiseSum(X, V1, V2) ==
  /\ X.kind = "polytope"
  /\ Len(X.V) = Len(V1) * Len(V2)
  /\ \A j \in 1..Len(V1) : \A i \in 1..Len(V2) :
       X.V[(i - 1) * Len(V1) + j] = VecAdd(V1[j], V2[i])

BothV == SetsCall /\ p1.isV /\ p2.isV

NoSpecialCase ==
  /\ ~RepresentsFullspace(p1) /\ ~RepresentsFullspace(p2)
  /\ ~RepresentsEmpty(p1) /\ ~RepresentsEmpty(p2)
  /\ ~RepresentsOrigin(p1) /\ ~RepresentsOrigin(p2)

\* C7 as stated: whenever both operands have a V-representation, the vertex
\* matrix of the result has |V1|*|V2| columns, the pairwise sums, and the
\* same set of columns as with the operands swapped.
C7_VertexSumWheneverBothV ==
  BothV =>
    /\ out.kind = "plus"
    /\ IsPairwiseSum(out.val, p1.V, p2.V)
    /\ Range(out.val.V) = Range(AuxPlusVpolyVpoly(p2, p1, p1.n).V)

\* C7 amended: when both operands have a V-representation and neither
\* represents the full space, the empty set or the origin, the result is the
\* matrix of the |V1|*|V2| pairwise sums, with the same set of columns as
\* for the swapped operands.
C7_VertexSum ==
  (BothV /\ NoSpecialCase) =>
    /\ out.kind = "plus" /\ out.path = "VV" /\ out.ret = "new"
    /\ IsPairwiseSum(out.val, p1.V, p2.V)
    /\ Range(out.val.V) = Range(AuxPlusVpolyVpoly(p2, p1, p1.n).V)

\* C7 witness: four vertices added to three give twelve columns, some of
\* them equal.
C7_Witness ==
  /\ BothV /\ PlusDone /\ out.path = "VV"
  /\ Len(p1.V) = 4 /\ Len(p2.V) = 3
  /\ Len(out.val.V) = 12
  /\ Cardinality(Range(out.val.V)) < 12

\* C8: without a special case the algorithm follows the flags on entry: the
\* vertex sum iff both operands had a V-representation, otherwise the H/H
\* path directly iff both had an H-representation, otherwise the H/H path
\* on the converted operands.
C8_PathFromEntryFlags ==
  (SetsCall /\ NoSpecialCase) =>
    /\ out.kind = "plus"
    /\ out.path \in {"VV", "HH", "convHH"}
    /\ out.path = "VV" <=> (p1.isV /\ p2.isV)
    /\ out.path = "HH" <=> (~(p1.isV /\ p2.isV) /\ p1.isH /\ p2.isH)
    /\ out.path = "convHH" =>
         out.val.high = LiftedSystem(Constraints(p1), Constraints(p2), p1.n)

\* C8 witness: the first operand had no vertices on entry and holds them
\* after the checks, the second had them on entry: the H/H path is taken.
C8_Witness ==
  /\ SetsCall /\ PlusDone
  /\ ~p1.isV /\ h1.isV /\ p2.isV /\ p2.isH
  /\ out.path = "HH"

\* the call was plus(p1, p2) with p2 a single column of length dim(p1)
ColumnCall ==
  /\ pc = "done" /\ p2.kind = "ndarray"
  /\ p2.ndim = 2 /\ NumCols(p2) = 1 /\ NumRows(p2) = p1.n

\* X is P translated by v: shifted offsets if P has an H-representation,
\* shifted vertices if P has only a V-representation
IsTranslate(X, P, v) ==
  /\ X.kind = "polytope"
  /\ P.isH =>
       /\ X.isH /\ X.A = P.A /\ X.Ae = P.Ae
       /\ X.b = [i \in 1..Len(P.A) |-> P.b[i] + Dot(P.A[i], v)]
       /\ X.be = [j \in 1..Len(P.Ae) |-> P.be[j] + Dot(P.Ae[j], v)]
  /\ ~P.isH =>
       /\ X.isV /\ Len(X.V) = Len(P.V)
       /\ \A k \in 1..Len(P.V) : X.V[k] = VecAdd(P.V[k], v)
  /\ \A z \in SemGrid(P.n) : Member(X, z) <=> Member(P, VecSub(z, v))

\* C9 as stated: plus(P, p) is built from the shifted offsets whenever P has
\* an H-representation, from the shifted vertices otherwise.
C9_TranslateAlways ==
  ColumnCall => (out.kind = "plus" /\ IsTranslate(out.val, p1, p2.cols[1]))

\* C9 amended: for P not representing the full space plus(P, p) is built
\* from the shifted offsets or vertices; for P representing the full space
\* the result is Polytope.Inf(n), the same set without any row.
C9_Translate ==
  ColumnCall =>
    /\ out.kind = "plus"
    /\ ~RepresentsFullspace(p1) =>
         out.path = "point" /\ IsTranslate(out.val, p1, p2.cols[1])
    /\ RepresentsFullspace(p1) =>
         /\ out.val = PolyInf(p1.n)
         /\ \A z \in SemGrid(p1.n) :
              Member(out.val, z) <=> Member(p1, VecSub(z, p2.cols[1]))

\* C9 witness: a box holding both representations is translated through its
\* H-representation, the result holding no vertices.
C9_Witness ==
  /\ ColumnCall /\ PlusDone /\ out.path = "point"
  /\ p1 = WithVertices(BoxPoly(<<-1, -1>>, <<1, 1>>))
  /\ p2.cols[1] = <<1, -1>>
  /\ out.val.b = <<2, 0, 0, 2>> /\ ~out.val.isV

\* C10 as stated: a numeric operand that is not a single column of length
\* dim(P) makes plus raise an error, for every polytope P.
C10_BadArrayRaises ==
  (pc = "done" /\ p2.kind = "ndarray"
     /\ ~(p2.ndim = 2 /\ NumCols(p2) = 1 /\ NumRows(p2) = p1.n))
    => out.kind = "error"

(***************************************************************************)
(* contSet/minus.py: minus(S, p).                                          *)
(***************************************************************************)
\* -np.array(p): the array with every entry negated, the shape kept
NegArray(X) == [X EXCEPT !.cols = [k \in 1..Len(X.cols) |-> VecNeg(X.cols[k])]]

\* S.plus(X) for a polytope S and an array X
PlusWithArray(P, X) ==
  IF ~EqualDim(P, X) THEN ErrorOut("CORA:dimensionMismatch") ELSE PlusArray(P, X)

\* the attribute lookup S.plus on an operand of kind k; a numeric array has
\* no method plus
HasPlusMethod(Sx) == Sx.kind = "polytope"

\* minus handing the subtrahend to plus as it came
MinusNoNegation(Sx, px) ==
  IF px.kind = "ndarray"
    THEN IF HasPlusMethod(Sx) THEN PlusWithArray(Sx, px)
                              ELSE ErrorOut("AttributeError")
  ELSE IF Sx.kind = "ndarray" THEN ErrorOut("AttributeError")
  ELSE ErrorOut("CORA:notSupported")

\* lines 39-53: a numeric subtrahend goes to S.plus(-p); a numeric minuend
\* with a set subtrahend looks up S.plus on the array, which fails before
\* p.uminus() is evaluated; two sets raise CORA:notSupported
MinusResult(Sx, px) ==
  IF px.kind = "ndarray"
    THEN IF HasPlusMethod(Sx) THEN PlusWithArray(Sx, NegArray(px))
                              ELSE ErrorOut("AttributeError")
  ELSE IF Sx.kind = "ndarray" THEN ErrorOut("AttributeError")
  ELSE ErrorOut("CORA:notSupported")

MinusOperands == Pool2 \cup {P \in Pool1 : P.isV} \cup Arrays(1) \cup Arrays(2)

InitMinus ==
  /\ p1 \in MinusOperands
  /\ p2 \in MinusOperands
  /\ S = <<>>
  /\ tol = 0
  /\ pc = "start"
  /\ out = NoObj
  /\ h1 = p1
  /\ h2 = p2

\* minus(p1, p2)
Minus ==
  /\ pc = "start"
  /\ out' = MinusResult(p1, p2)
  /\ pc' = "done"
  /\ UNCHANGED <<p1, p2, S, tol, h1, h2>>

NextMinus == Minus

SpecMinus == InitMinus /\ [][NextMinus]_vars

\* the result is the minuend moved by -p: z is in it iff z + p is in p1
IsMovedBack(R, P, p) ==
  \A z \in SemGrid(P.n) :
    (\A i \in 1..P.n : Abs(z[i] + p[i]) <= GridMax) =>
      (Member(R, z) <=> Member(P, VecAdd(z, p)))

\* C11: minus(S, p) with two set operands raises CORA:notSupported and returns
\* no set; a set subtrahend is never accepted; with a numeric subtrahend the
\* result is S.plus(-p), which for a column vector is S moved by -p.
C11_MinusOnlyNumericSubtrahend ==
  pc = "done" =>
    /\ (p1.kind = "polytope" /\ p2.kind = "polytope")
         => out = ErrorOut("CORA:notSupported")
    /\ p2.kind = "polytope" => out.kind = "error"
    /\ (p1.kind = "polytope" /\ p2.kind = "ndarray")
         => /\ out = PlusWithArray(p1, NegArray(p2))
            /\ (out.kind = "plus" /\ out.path = "point")
                 => IsMovedBack(out.val, p1, p2.cols[1])

\* a box minus a non-zero column, and two sets that were refused
C11_Witness ==
  /\ pc = "done" /\ p1.kind = "polytope" /\ p2.kind = "ndarray"
  /\ out.kind = "plus" /\ out.path = "point"
  /\ p2.cols[1] = <<1, -1>>
  /\ p1 = BoxPoly(<<-1, -1>>, <<1, 1>>)
  /\ Member(out.val, <<-2, 2>>) /\ ~Member(out.val, <<1, 0>>)

(***************************************************************************)
(* polytope/private/priv_box_H.py: the box enclosure of an H-polytope.     *)
(* Support values are extended integers: inf = 1 is +infinity, inf = -1 is *)
(* -infinity, inf = 0 the finite value v.                                  *)
(***************************************************************************)
Fin(v) == [inf |-> 0, v |-> v]
PosInf == [inf |-> 1, v |-> 0]
NegInf == [inf |-> -1, v |-> 0]
ExtNeg(e) == [inf |-> -e.inf, v |-> -e.v]
\* the finite value c is at most the extended value e
LeqExt(c, e) == e.inf = 1 \/ (e.inf = 0 /\ c <= e.v)

\* the points of the integer grid satisfying the constraints
Feasible(P) == {x \in SemGrid(P.n) : SatH(P, x)}

\* priv_supportFunc(A, b, Ae, be, e_i, mode): the linear program over the
\* constraints; infeasible gives -inf (upper) or +inf (lower), a value that
\* reaches the border of the grid is unbounded
SupportFunc(P, i, mode) ==
  LET F == Feasible(P)
  IN  IF F = {} THEN (IF mode = "upper" THEN NegInf ELSE PosInf)
      ELSE IF mode = "upper"
        THEN LET m == MaxOf({x[i] : x \in F})
             IN  IF m = GridMax THEN PosInf ELSE Fin(m)
        ELSE LET m == MinOf({x[i] : x \in F})
             IN  IF m = -GridMax THEN NegInf ELSE Fin(m)

\* the test that never ends the loop early
EarlyReturnNever(val) == FALSE

\* line 72: ub[i, 0] == -np.inf
EarlyReturn(val) == val = NegInf

\* the offsets stacked without negating the lower bounds
BoxOffsetsNoNeg(ub, lb) == ub \o lb

\* line 84: b_out = np.vstack([ub, -lb])
BoxOffsets(ub, lb) == ub \o [k \in 1..Len(lb) |-> ExtNeg(lb[k])]

\* line 83: A_out = np.vstack([np.eye(n), -np.eye(n)])
BoxMatrix(n) ==
  [r \in 1..(2 * n) |->
     IF r <= n THEN UnitRow(n, r, 1) ELSE UnitRow(n, r - n, -1)]

\* lines 61-62 and the entry of the loop
BoxLocals(n) ==
  [kind |-> "box", i |-> 1,
   ub |-> [k \in 1..n |-> PosInf], lb |-> [k \in 1..n |-> NegInf],
   evals |-> <<>>, A |-> <<>>, b |-> <<>>, empty |-> FALSE]

BoxInputs ==
  {PolyEmpty(0), PolyInf(0)} \cup HOnly1 \cup HOnly2 \cup Boxes(2)

InitBox ==
  /\ p1 \in BoxInputs
  /\ p2 = NoObj
  /\ S = <<>>
  /\ tol = 0
  /\ pc = (IF p1.n = 0 THEN "assemble" ELSE "upper")
  /\ out = BoxLocals(p1.n)
  /\ h1 = p1
  /\ h2 = NoObj

\* lines 67-76: the upper support value along e_i, and the early return
BoxUpper ==
  /\ pc = "upper"
  /\ LET val == SupportFunc(p1, out.i, "upper")
         ev == Append(out.evals, [mode |-> "upper", axis |-> out.i, val |-> val])
     IN  IF EarlyReturn(val)
           THEN /\ out' = [out EXCEPT !.ub[out.i] = val, !.evals = ev,
                                      !.empty = TRUE, !.A = <<>>, !.b = <<>>]
                /\ pc' = "done"
           ELSE /\ out' = [out EXCEPT !.ub[out.i] = val, !.evals = ev]
                /\ pc' = "lower"
  /\ UNCHANGED <<p1, p2, S, tol, h1, h2>>

\* lines 79-80: the lower support value along e_i, then the next axis
BoxLower ==
  /\ pc = "lower"
  /\ LET val == SupportFunc(p1, out.i, "lower")
     IN  out' = [out EXCEPT !.lb[out.i] = val, !.i = out.i + 1,
                   !.evals = Append(out.evals,
                               [mode |-> "lower", axis |-> out.i, val |-> val])]
  /\ pc' = (IF out.i < p1.n THEN "upper" ELSE "assemble")
  /\ UNCHANGED <<p1, p2, S, tol, h1, h2>>

\* lines 83-89: the loop has ended, the box is assembled
BoxAssemble ==
  /\ pc = "assemble"
  /\ out' = [out EXCEPT !.A = BoxMatrix(p1.n),
                        !.b = BoxOffsets(out.ub, out.lb), !.empty = FALSE]
  /\ pc' = "done"
  /\ UNCHANGED <<p1, p2, S, tol, h1, h2>>

NextBox == BoxUpper \/ BoxLower \/ BoxAssemble

SpecBox == InitBox /\ [][NextBox]_vars

BoxDone == pc = "done" /\ out.kind = "box"

NoEmptySignal(P) == \A i \in 1..P.n : SupportFunc(P, i, "upper") # NegInf

\* C12: without an upper support value of -inf the result is empty = false,
\* A = [I; -I], b = [ub; -lb] with ub_i, lb_i the support values along e_i;
\* every point of the input satisfies the box rows, and each finite bound is
\* attained by a point of the input.
C12_BoxOfSupportValues ==
  (BoxDone /\ NoEmptySignal(p1)) =>
    LET n == p1.n
    IN  /\ out.empty = FALSE
        /\ out.A = [r \in 1..(2 * n) |->
                      [c \in 1..n |-> IF c = r THEN 1
                                      ELSE IF c = r - n THEN -1 ELSE 0]]
        /\ Len(out.b) = 2 * n
        /\ \A i \in 1..n :
             /\ out.b[i] = SupportFunc(p1, i, "upper")
             /\ out.b[n + i] = ExtNeg(SupportFunc(p1, i, "lower"))
        /\ \A x \in Feasible(p1) :
             \A r \in 1..(2 * n) : LeqExt(Dot(out.A[r], x), out.b[r])
        /\ \A r \in 1..(2 * n) :
             out.b[r].inf = 0 =>
               \E x \in Feasible(p1) : Dot(out.A[r], x) = out.b[r].v

\* the box [-1,0] x [0,1] is returned with its own bounds
C12_Witness ==
  /\ BoxDone /\ p1 = BoxPoly(<<-1, 0>>, <<0, 1>>)
  /\ out.empty = FALSE
  /\ out.b = <<Fin(0), Fin(1), Fin(1), Fin(0)>>

\* the first axis whose upper support value is -inf, 0 when there is none
FirstEmptyAxis(P) ==
  IF NoEmptySignal(P) THEN 0
  ELSE MinOf({i \in 1..P.n : SupportFunc(P, i, "upper") = NegInf})

\* C13: the evaluations run in the order upper(e_1), lower(e_1), upper(e_2),
\* ...; the call returns right after the first upper value of -inf with
\* empty = true, a 0 x n matrix and a 0 x 1 vector, and otherwise after
\* exactly 2n evaluations.
C13_EvaluationOrder ==
  /\ out.kind = "box" =>
       \A k \in 1..Len(out.evals) :
         /\ out.evals[k].mode = (IF k % 2 = 1 THEN "upper" ELSE "lower")
         /\ out.evals[k].axis = (k + 1) \div 2
         /\ out.evals[k].val = SupportFunc(p1, (k + 1) \div 2, out.evals[k].mode)
  /\ BoxDone =>
       IF NoEmptySignal(p1)
         THEN Len(out.evals) = 2 * p1.n /\ out.empty = FALSE
         ELSE /\ Len(out.evals) = 2 * FirstEmptyAxis(p1) - 1
              /\ out.evals[Len(out.evals)].val = NegInf
              /\ out.empty = TRUE /\ out.A = <<>> /\ out.b = <<>>

\* an infeasible system in dimension 2 returns after the one evaluation
\* upper(e_1)
C13_Witness ==
  /\ BoxDone /\ p1 = PolyEmpty(2)
  /\ out.empty /\ out.A = <<>> /\ out.b = <<>>
  /\ out.evals = <<[mode |-> "upper", axis |-> 1, val |-> NegInf]>>

(***************************************************************************)
(* contains_.py in full: point clouds with several columns, set operands,  *)
(* the certificate and the scaling factor.  A scaling factor is either     *)
(* np.inf or 1 + num / sqrt(den2); 1.0 is the case num = 0.                *)
(***************************************************************************)
ScInf == [k |-> "inf", num |-> 0, den2 |-> 1]
ScOnePlus(num, den2) == [k |-> "onePlus", num |-> num, den2 |-> den2]
ScOne == ScOnePlus(0, 1)

\* np.linalg.norm(P.b) squared; the norm exceeds 1e-9 iff this is positive
NormSq(b) == Dot(b, b)

\* lines 116 and 126-143: the factor as the loop leaves it.  It is written
\* inside the block of the inequality rows, before the equality rows are
\* looked at, and only when the factor is requested.
ScalingInLoop(P, point, t, toggle) ==
  IF Len(P.A) > 0 /\ toggle
    THEN LET mv == NpMax(IneqViolations(P, point))
         IN  IF ~(mv > t) THEN ScOne
             ELSE IF NormSq(P.b) > 0 THEN ScOnePlus(mv, NormSq(P.b))
             ELSE ScOnePlus(mv, 1)
    ELSE ScInf

\* the factor of a contained point left as the loop wrote it
ClampNone(sc) == sc

\* line 159: np.minimum(scaling_factors[results_bool], 1.0)
ClampContained(sc) == IF sc.k = "inf" \/ sc.num > 0 THEN ScOne ELSE sc

\* lines 116-159 for one column
PointScaling(P, point, t, toggle) ==
  LET sc == ScalingInLoop(P, point, t, toggle)
  IN  IF toggle /\ PointContained(P, point, t) THEN ClampContained(sc) ELSE sc

\* every iteration reading the first column
PointAtFirst(cols, i) == cols[1]

\* line 120: point = points[:, i:i+1]
PointAt(cols, i) == cols[i]

ContainsOut(via, shape, results, scaling) ==
  [kind |-> "contains", via |-> via, shape |-> shape,
   results |-> results, cert |-> TRUE, scaling |-> scaling]

\* lines 87-166: _contains_pointcloud on the columns cols
ContainsPointcloud(P, cols, t, toggle, via) ==
  IF ~P.isH THEN ErrorOut("CORA:notSupported")
  ELSE LET m == Len(cols)
       IN  ContainsOut(via, IF m = 1 THEN "scalar" ELSE "array",
             [i \in 1..m |-> PointContained(P, PointAt(cols, i), t)],
             [i \in 1..m |-> PointScaling(P, PointAt(cols, i), t, toggle)])

\* a set operand: the box [lo, hi], with the methods it offers.  vertices()
\* may be missing or raise; center() may be missing or return None.
SetOperand(lo, hi, ov, vr, oc, cn) ==
  [kind |-> "set", n |-> Len(lo), lo |-> lo, hi |-> hi,
   offersVertices |-> ov, verticesRaise |-> vr,
   offersCenter |-> oc, centerNone |-> cn]

InBox(Sx, x) == \A i \in 1..Sx.n : Sx.lo[i] <= x[i] /\ x[i] <= Sx.hi[i]

\* S.vertices(): the corners of the box as columns
SetVertices(Sx) ==
  SetToSeq({x \in Tuples(Sx.n, Range(Sx.lo) \cup Range(Sx.hi)) :
              \A i \in 1..Sx.n : x[i] \in {Sx.lo[i], Sx.hi[i]}})

\* S.center(): the midpoint of the box
SetCenter(Sx) == [i \in 1..Sx.n |-> (Sx.lo[i] + Sx.hi[i]) \div 2]

\* lines 68-74: the vertex path inside try; any exception of S.vertices()
\* and of _contains_pointcloud is caught by the bare except
TryVertices(P, Sx, t, toggle) ==
  IF Sx.verticesRaise THEN ErrorOut("vertices")
  ELSE ContainsPointcloud(P, SetVertices(Sx), t, toggle, "vertices")

\* lines 62-84: contains_
ContainsCall(P, Sx, t, toggle) ==
  IF Sx.kind = "ndarray"
    THEN ContainsPointcloud(P, Sx.cols, t, toggle, "cloud")
  ELSE IF Sx.offersVertices /\ TryVertices(P, Sx, t, toggle).kind # "error"
    THEN TryVertices(P, Sx, t, toggle)
  ELSE IF Sx.offersCenter /\ ~Sx.centerNone
    THEN ContainsPointcloud(P, <<SetCenter(Sx)>>, t, toggle, "center")
  ELSE ContainsOut("default", "scalar", <<FALSE>>, <<ScInf>>)

\* boxes with centre c and half-width w, with every combination of methods
SetOperands(n) ==
  {SetOperand([i \in 1..n |-> c[i] - w], [i \in 1..n |-> c[i] + w],
              m[1], m[2], m[3], m[4]) :
     <<c, w, m>> \in
        Tuples(n, -MaxPt..MaxPt) \X {0, 1}
        \X {q \in Tuples(4, BOOLEAN) : (q[2] => q[1]) /\ (q[4] => q[3])}}

Options(toggle) == [kind |-> "options", scalingToggle |-> toggle]

InitCheck ==
  /\ p1 \in Pool1 \cup Pool2
  /\ p2 \in {Options(g) : g \in BOOLEAN}
  /\ S \in Arrays(p1.n) \cup SetOperands(p1.n)
  /\ tol \in 0..MaxTol
  /\ pc = "start"
  /\ out = NoObj
  /\ h1 = p1
  /\ h2 = NoObj

\* res, cert, scaling = contains_(P, S, 'exact', tol, 0, True, scalingToggle)
ContainsAny ==
  /\ pc = "start"
  /\ p2.kind = "options"
  /\ out' = ContainsCall(p1, S, tol, p2.scalingToggle)
  /\ pc' = "done"
  /\ UNCHANGED <<p1, p2, S, tol, h1, h2>>

NextCheck == ContainsAny

SpecCheck == InitCheck /\ [][NextCheck]_vars

CheckDone == pc = "done" /\ out.kind = "contains"

AllTrue(r) == \A i \in 1..Len(r) : r[i]

\* the points of the set operand on the grid
SetPoints(Sx) == {x \in SemGrid(Sx.n) : InBox(Sx, x)}

\* C14 as stated: with the certificate true the result is exact: every entry
\* for a point cloud equals membership within tol; for a set operand the
\* result is true only if every point of S lies in P and false only if some
\* point of S lies outside P, on the vertex path, the centre fallback and
\* the default result alike.
C14_CertifiedResultExact ==
  (CheckDone /\ out.cert) =>
    IF S.kind = "ndarray"
      THEN \A i \in 1..Len(out.results) :
             out.results[i] <=> SatisfiesWithin(p1, S.cols[i], tol)
      ELSE /\ AllTrue(out.results)
                => \A x \in SetPoints(S) : SatisfiesWithin(p1, x, tol)
           /\ ~AllTrue(out.results)
                => \E x \in SetPoints(S) : ~SatisfiesWithin(p1, x, tol)

\* C15: when the scaling factor is requested, every point reported as
\* contained has the factor exactly 1.0, also for a polytope without
\* inequality rows.
C15_ContainedScalesOne ==
  (CheckDone /\ p2.scalingToggle) =>
    \A i \in 1..Len(out.results) :
      out.results[i] => out.scaling[i] = ScOne

\* a contained point of a polytope that has an equality row and no
\* inequality row
C15_Witness ==
  /\ CheckDone /\ p2.scalingToggle /\ S.kind = "ndarray"
  /\ Len(p1.A) = 0 /\ p1.hasAe /\ Len(p1.Ae) = 1
  /\ out.results = <<TRUE>> /\ out.scaling = <<ScOne>>

\* the violations of the rows of P at x that exceed t
Violations(P, x, t) ==
  {v \in {IneqViolations(P, x)[i] : i \in 1..Len(P.A)}
         \cup {EqViolations(P, x)[j] : j \in 1..Len(P.Ae)} : v > t}

\* C16 as stated: when the scaling factor is requested, every point reported
\* as not contained has the factor 1 + maxViolation/|b| (1 + maxViolation
\* when |b| <= 1e-9) for a violation maxViolation > tol, finite and above 1,
\* whether an inequality or an equality row is violated.
C16_RejectedScalesAboveOne ==
  (CheckDone /\ p2.scalingToggle /\ S.kind = "ndarray") =>
    \A i \in 1..Len(out.results) :
      ~out.results[i] =>
        /\ out.scaling[i].k = "onePlus"
        /\ out.scaling[i].num \in Violations(p1, S.cols[i], tol)
        /\ out.scaling[i].den2 = (IF NormSq(p1.b) > 0 THEN NormSq(p1.b) ELSE 1)

\* the single-point call on column i of the array X
SingleCall(P, X, i, t, toggle) ==
  ContainsCall(P, [kind |-> "ndarray", ndim |-> 2, cols |-> <<X.cols[i]>>],
               t, toggle)

\* C17: for m > 1 columns the result and the scaling are arrays of length m
\* whose i-th entries are the scalar result and scaling of the single-point
\* call on column i; a single column, or a one-dimensional array, gives
\* scalars.
C17_ColumnsIndependent ==
  (CheckDone /\ S.kind = "ndarray") =>
    LET m == Len(S.cols)
    IN  /\ out.shape = (IF m > 1 THEN "array" ELSE "scalar")
        /\ Len(out.results) = m /\ Len(out.scaling) = m
        /\ \A i \in 1..m :
             LET one == SingleCall(p1, S, i, tol, p2.scalingToggle)
             IN  /\ one.shape = "scalar"
                 /\ out.results[i] = one.results[1]
                 /\ out.scaling[i] = one.scaling[1]

\* two columns judged differently, with different scaling factors
C17_Witness ==
  /\ CheckDone /\ S.kind = "ndarray" /\ Len(S.cols) = 2
  /\ p2.scalingToggle
  /\ out.shape = "array"
  /\ out.results = <<TRUE, FALSE>>
  /\ out.scaling[2].num > 0

\* C18 as stated: without an H-representation contains_ raises an error and
\* returns no triple, whatever the operand S is.
C18_MissingHRaises ==
  (pc = "done" /\ p2.kind = "options" /\ ~p1.isH) => out.kind = "error"

(***************************************************************************)
(* polytope/isemptyobject.py.  The object carries the memo _emptySet:      *)
(* "None" while the fact is unknown, "True" or "False" once it is known.   *)
(***************************************************************************)
WithMemo(P, m) == P @@ ("emptySet" :> m)

\* the set the object describes has no point
IsEmptySet(P) == IF P.isV THEN Len(P.V) = 0 ELSE RepresentsEmpty(P)

\* P._V.size: rows times columns of the vertex matrix
VSize(P) == P.n * Len(P.V)

\* lines 39-50: the memo when it is known; for a V-representation the test
\* for a vertex matrix without entries; False for everything else
IsEmptyObjectResult(P) ==
  IF P.emptySet # "None" THEN P.emptySet = "True"
  ELSE IF P.isV THEN VSize(P) = 0
  ELSE FALSE

\* a polytope with the memo unknown, or known and true to the set
MemoObjects ==
  UNION {{WithMemo(P, "None"),
          WithMemo(P, IF IsEmptySet(P) THEN "True" ELSE "False")} :
         P \in Pool1 \cup Pool2}

InitEmpty ==
  /\ p1 \in MemoObjects
  /\ p2 = NoObj
  /\ S = <<>>
  /\ tol = 0
  /\ pc = "start"
  /\ out = NoObj
  /\ h1 = p1
  /\ h2 = NoObj

\* res = isemptyobject(p1)
IsEmptyObject ==
  /\ pc = "start"
  /\ out' = [kind |-> "isemptyobject", res |-> IsEmptyObjectResult(p1)]
  /\ pc' = "done"
  /\ UNCHANGED <<p1, p2, S, tol, h1, h2>>

NextEmpty == IsEmptyObject

SpecEmpty == InitEmpty /\ [][NextEmpty]_vars

\* C19 as stated: isemptyobject returns the memoized fact when it is known;
\* when it is unknown, a V-representation polytope is empty iff it has zero
\* vertices, and an H-representation polytope is reported empty when its
\* constraints are infeasible, as with the row 0*x <= -1.
C19_EmptinessDetermined ==
  (pc = "done" /\ out.kind = "isemptyobject") =>
    /\ p1.emptySet # "None" => (out.res <=> p1.emptySet = "True")
    /\ (p1.emptySet = "None" /\ p1.isV) => (out.res <=> Len(p1.V) = 0)
    /\ (p1.emptySet = "None" /\ ~p1.isV /\ p1.isH /\ RepresentsEmpty(p1))
         => out.res

(***************************************************************************)
(* The life of one polytope object: p1 is the object as constructed, h1    *)
(* the object as it is now, after any sequence of vertices(), representsa, *)
(* plus and contains calls.                                                *)
(***************************************************************************)
LifeObjects == Pool1 \cup Pool2

\* the second operands of the plus calls on an object of dimension n
LifeOperands(n) ==
  {PolyOrigin(n), PolyInf(n), BoxPoly(Zeros(n), [i \in 1..n |-> 1]),
   VPoly(n, <<[i \in 1..n |-> 1]>>),
   [kind |-> "ndarray", ndim |-> 2, cols |-> <<[i \in 1..n |-> 1]>>]}

InitLife ==
  /\ p1 \in LifeObjects
  /\ p2 = NoObj
  /\ S = <<>>
  /\ tol = 0
  /\ pc = "new"
  /\ out = NoObj
  /\ h1 = p1
  /\ h2 = NoObj

\* vertices() replacing the halfspaces by the vertices it computed
LifeVerticesDropsH ==
  /\ pc # "start"
  /\ IF h1.isV
       THEN out' = [kind |-> "vertices", V |-> h1.V] /\ h1' = h1
     ELSE IF BoundedH(h1)
       THEN /\ h1' = VPoly(h1.n, VerticesOf(h1))
            /\ out' = [kind |-> "vertices", V |-> h1'.V]
     ELSE out' = ErrorOut("UnboundedConversion") /\ h1' = h1
  /\ pc' = "vertices"
  /\ p2' = NoObj /\ S' = <<>>
  /\ UNCHANGED <<p1, tol, h2>>

\* V = P.vertices(): the stored vertices, or those computed from the
\* halfspaces and stored next to them (the test of origin(2): H-only before
\* the call, _isVRep after it); an unbounded set has no vertex matrix
LifeVertices ==
  /\ pc # "start"
  /\ IF h1.isV
       THEN out' = [kind |-> "vertices", V |-> h1.V] /\ h1' = h1
     ELSE IF BoundedH(h1)
       THEN /\ h1' = WithVertices(h1)
            /\ out' = [kind |-> "vertices", V |-> h1'.V]
     ELSE out' = ErrorOut("UnboundedConversion") /\ h1' = h1
  /\ pc' = "vertices"
  /\ p2' = NoObj /\ S' = <<>>
  /\ UNCHANGED <<p1, tol, h2>>

\* P.representsa(type, tol): the fullspace check reads what is stored, the
\* emptySet and origin checks may store the representation that is lacking
LifeRepresentsa ==
  /\ pc # "start"
  /\ \E type \in {"fullspace", "emptySet", "origin"} :
       /\ out' = [kind |-> "representsa", type |-> type,
                  res |-> IF type = "fullspace" THEN RepresentsFullspace(h1)
                          ELSE IF type = "emptySet" THEN RepresentsEmpty(h1)
                          ELSE RepresentsOrigin(h1)]
       /\ h1' \in (IF type = "fullspace" THEN {h1} ELSE AfterChecks(h1))
  /\ pc' = "representsa"
  /\ p2' = NoObj /\ S' = <<>>
  /\ UNCHANGED <<p1, tol, h2>>

\* plus(P, q): lines 111-130 read the flags of P and call representsa on it;
\* nothing in plus assigns to a field of P
LifePlus ==
  /\ pc # "start"
  /\ \E q \in LifeOperands(h1.n) :
       /\ p2' = q
       /\ IF q.kind = "ndarray"
            THEN h1' = h1 /\ out' = PlusWithArray(h1, q)
            ELSE /\ h1' \in (IF RepresentsFullspace(h1) \/ RepresentsFullspace(q)
                               THEN {h1} ELSE AfterChecks(h1))
                 /\ out' = PlusPolytopes(h1, q, h1', q)
  /\ pc' = "plus"
  /\ S' = <<>>
  /\ UNCHANGED <<p1, tol, h2>>

\* P.contains(point): the halfspaces are read, nothing is stored
LifeContains ==
  /\ pc # "start"
  /\ \E point \in Points(h1.n) :
       /\ S' = point
       /\ out' = ContainsResult(h1, point, tol)
  /\ pc' = "contains"
  /\ p2' = NoObj
  /\ UNCHANGED <<p1, tol, h1, h2>>

NextLife == LifeVertices \/ LifeRepresentsa \/ LifePlus \/ LifeContains

SpecLife == InitLife /\ [][NextLife]_vars

\* C20: over any sequence of vertices(), representsa, plus and contains
\* calls the representation flags of a polytope only accumulate: a flag that
\* is true stays true, the stored A, b and V are left as they are, and a
\* successful vertices() leaves hasV true while hasH remains.
C20_FlagsAccumulate ==
  [][/\ h1.isH => (h1'.isH /\ h1'.A = h1.A /\ h1'.b = h1.b
                     /\ h1'.Ae = h1.Ae /\ h1'.be = h1.be)
     /\ h1.isV => (h1'.isV /\ h1'.V = h1.V)
     /\ (pc' = "vertices" /\ out'.kind = "vertices") => h1'.isV]_vars

\* origin(2) after vertices(): both flags set, A and b as constructed, the
\* single vertex 0
C20_Witness ==
  /\ p1 = PolyOrigin(2) /\ pc = "vertices"
  /\ h1.isH /\ h1.isV
  /\ h1.A = p1.A /\ h1.b = p1.b
  /\ h1.V = <<<<0, 0>>>> /\ out.kind = "vertices"

(***************************************************************************)
(* contSet/zonotope: zonotope objects, empty.py and abs_op.py.  A zonotope *)
(* holds the centre c as a matrix with n rows and one column (no column    *)
(* for the empty set) and the generator matrix G, both as sequences of     *)
(* columns.                                                                *)
(***************************************************************************)
Zono(n, c, G) == [kind |-> "zonotope", n |-> n, c |-> c, G |-> G]

\* zonotope/empty.py lines 52-56: c = np.zeros((n, 0)), G = np.zeros((n, 0))
ZonoEmpty(n) == Zono(n, <<>>, <<>>)

\* Z.is_empty(): the centre has no column
ZonoIsEmpty(Z) == Len(Z.c) = 0

\* Z.dim(): the number of rows of the centre
ZonoDim(Z) == Z.n

\* the entries with their signs flipped
NpAbsFlip(M) == [k \in 1..Len(M) |-> [i \in 1..Len(M[k]) |-> -M[k][i]]]

\* np.abs of a matrix given by its columns
NpAbs(M) == [k \in 1..Len(M) |-> [i \in 1..Len(M[k]) |-> Abs(M[k][i])]]

\* the generators handed on as they are
AbsGeneratorsKept(Z) == Z.G

\* line 33: G_abs = np.abs(Z.G)
AbsGenerators(Z) == NpAbs(Z.G)

\* lines 27-35 of abs_op: a new object; no field of Z is assigned
AbsOpResult(Z) ==
  IF ZonoIsEmpty(Z) THEN ZonoEmpty(ZonoDim(Z))
  ELSE Zono(Z.n, NpAbs(Z.c), AbsGenerators(Z))

\* zonotopes of dimension n with at most g generators, entries in -MaxPt..MaxPt
Zonos(n, g) ==
  {Zono(n, <<c>>, G) :
     <<c, G>> \in Tuples(n, -MaxPt..MaxPt)
                  \X SeqsOf(Tuples(n, -MaxPt..MaxPt), 0, g)}

AbsInputs == {ZonoEmpty(n) : n \in 0..2} \cup Zonos(1, 2) \cup Zonos(2, 2)

InitAbs ==
  /\ p1 \in AbsInputs
  /\ p2 = NoObj
  /\ S = <<>>
  /\ tol = 0
  /\ pc = "start"
  /\ out = NoObj
  /\ h1 = p1
  /\ h2 = NoObj

\* out = abs_op(Z) for the object Z held in h1
AbsOp ==
  /\ pc = "start"
  /\ out' = AbsOpResult(h1)
  /\ pc' = "abs1"
  /\ UNCHANGED <<p1, p2, S, tol, h1, h2>>

\* h2 = abs_op(out): abs_op applied to its own result
AbsOpAgain ==
  /\ pc = "abs1"
  /\ h2' = AbsOpResult(out)
  /\ pc' = "abs2"
  /\ UNCHANGED <<p1, p2, S, tol, out, h1>>

NextAbs == AbsOp \/ AbsOpAgain

SpecAbs == InitAbs /\ [][NextAbs]_vars

\* y is the absolute value of x
IsAbsOf(y, x) == y >= 0 /\ (y = x \/ y = -x)

\* C21: abs_op(Z) is a zonotope of the dimension of Z with as many
\* generators, whose centre and generator entries are the absolute values of
\* those of Z; for the empty zonotope it is the empty zonotope of the same
\* dimension; Z itself is left unchanged.
C21_AbsEntrywise ==
  pc \in {"abs1", "abs2"} =>
    /\ out.kind = "zonotope" /\ out.n = p1.n
    /\ h1 = p1
    /\ IF Len(p1.c) = 0
         THEN out.c = <<>> /\ out.G = <<>>
         ELSE /\ Len(out.c) = 1 /\ Len(out.G) = Len(p1.G)
              /\ \A i \in 1..p1.n : IsAbsOf(out.c[1][i], p1.c[1][i])
              /\ \A k \in 1..Len(p1.G) :
                   /\ Len(out.G[k]) = p1.n
                   /\ \A i \in 1..p1.n : IsAbsOf(out.G[k][i], p1.G[k][i])

\* the example of the docstring up to the bounds: negative entries in the
\* centre and in both generators
C21_Witness ==
  /\ pc = "abs1"
  /\ p1 = Zono(2, <<<<-1, 1>>>>, <<<<1, -1>>, <<-1, 1>>>>)
  /\ out = Zono(2, <<<<1, 1>>>>, <<<<1, 1>>, <<1, 1>>>>)

\* C22: abs_op is idempotent: abs_op(abs_op(Z)) has the centre and the
\* generator matrix of abs_op(Z), for the empty zonotope too.
C22_AbsIdempotent ==
  pc = "abs2" => (h2.c = out.c /\ h2.G = out.G /\ h2.n = out.n)

\* a zonotope with negative entries, and abs_op applied twice
C22_Witness ==
  /\ pc = "abs2"
  /\ p1 = Zono(1, <<<<-1>>>>, <<<<-1>>>>)
  /\ out = Zono(1, <<<<1>>>>, <<<<1>>>>) /\ h2 = out

(***************************************************************************)
(* contSet/zonotope/private/priv_andAveraging.py, method 'normGen' with    *)
(* closedform = True.  Floating-point values are kept exact: k = "fin" is  *)
(* the fraction num/den in lowest terms, k = "inf" is +inf, k = "nan" is   *)
(* the result of 0 * inf and of 0 / 0.                                     *)
(***************************************************************************)
\* largest sumofw a caller passes
MaxW == 2

RECURSIVE Gcd(_, _)
Gcd(a, b) == IF b = 0 THEN a ELSE Gcd(b, a % b)

\* the fraction n/d, d > 0, in lowest terms
Rat(n, d) ==
  LET g == Gcd(Abs(n), d)
  IN  [k |-> "fin", num |-> n \div g, den |-> d \div g]
NumInf == [k |-> "inf", num |-> 0, den |-> 1]
NumNan == [k |-> "nan", num |-> 0, den |-> 1]

\* 1.0 / t for an integer t >= 0; division by zero gives inf
NumInv(t) == IF t = 0 THEN NumInf ELSE Rat(1, t)

\* a + b
NumAdd(a, b) ==
  IF a.k = "nan" \/ b.k = "nan" THEN NumNan
  ELSE IF a.k = "inf" \/ b.k = "inf" THEN NumInf
  ELSE Rat(a.num * b.den + b.num * a.den, a.den * b.den)

\* np.sum of a vector
NumSum(v) ==
  LET F[i \in 0..Len(v)] == IF i = 0 THEN Rat(0, 1) ELSE NumAdd(F[i - 1], v[i])
  IN  F[Len(v)]

\* x * a for an integer x; 0 * inf is nan
NumScale(x, a) ==
  IF a.k = "nan" THEN NumNan
  ELSE IF a.k = "inf" THEN (IF x = 0 THEN NumNan ELSE NumInf)
  ELSE Rat(x * a.num, a.den)

\* a / b for values that are not negative
NumDiv(a, b) ==
  IF a.k = "nan" \/ b.k = "nan" THEN NumNan
  ELSE IF b.k = "inf" THEN (IF a.k = "inf" THEN NumNan ELSE Rat(0, 1))
  ELSE IF a.k = "inf" THEN NumInf
  ELSE IF b.num = 0 THEN (IF a.num = 0 THEN NumNan ELSE NumInf)
  ELSE IF b.num > 0 THEN Rat(a.num * b.den, a.den * b.num)
  ELSE Rat(-(a.num * b.den), a.den * (-b.num))

\* Z.generators() and Z.center(): the stored matrices
ZonoGenerators(Z) == Z.G
ZonoCenter(Z) == Z.c

\* line 91: np.trace(G @ G.T), the sum of the squares of all entries of G
TraceGGt(G) ==
  LET F[k \in 0..Len(G)] == IF k = 0 THEN 0 ELSE F[k - 1] + Dot(G[k], G[k])
  IN  F[Len(G)]

\* lines 88-93: tVec
TVec(Zs) == [i \in 1..Len(Zs) |-> TraceGGt(ZonoGenerators(Zs[i]))]

\* lines 94-95: inv_tVecSum = np.sum(1.0 / tVec); w = sumofw / (tVec * inv_tVecSum)
ClosedFormWeights(Zs, sumofw) ==
  LET tVec == TVec(Zs)
      inv_tVecSum == NumSum([i \in 1..Len(Zs) |-> NumInv(tVec[i])])
  IN  [i \in 1..Len(Zs) |->
         NumDiv(Rat(sumofw, 1), NumScale(tVec[i], inv_tVecSum))]

\* w * x for a weight w and an integer entry x; nan times anything is nan
WeightTimes(w, x) == IF w.k = "fin" THEN Rat(w.num * x, w.den) ELSE NumNan

\* lines 136 and 144: c starts as np.zeros(n), one-dimensional, and each
\* c + w[i] * c_i adds the column c_i of shape (n, 1); numpy broadcasts the
\* sum to n rows and n columns, every column holding the weighted sum
CatCenter(Zs, w, n) ==
  LET F[i \in 0..Len(Zs)] ==
        IF i = 0 THEN [r \in 1..n |-> Rat(0, 1)]
        ELSE [r \in 1..n |->
                NumAdd(F[i - 1][r], WeightTimes(w[i], ZonoCenter(Zs[i])[1][r]))]
  IN  [col \in 1..n |-> F[Len(Zs)]]

\* lines 137 and 143: the generator matrices, weighted, side by side
CatGenerators(Zs, w) ==
  LET F[i \in 0..Len(Zs)] ==
        IF i = 0 THEN <<>>
        ELSE F[i - 1] \o
             [k \in 1..Len(ZonoGenerators(Zs[i])) |->
                [r \in 1..Len(ZonoGenerators(Zs[i])[k]) |->
                   WeightTimes(w[i], ZonoGenerators(Zs[i])[k][r])]]
  IN  F[Len(Zs)]

\* lines 135-151: _catWeighted, with the division by the sum of the weights
CatWeighted(Zs, w) ==
  LET n == ZonoDim(Zs[1])
      wsum == NumSum(w)
      c == CatCenter(Zs, w, n)
      G == CatGenerators(Zs, w)
  IN  [c |-> [col \in 1..Len(c) |->
                [r \in 1..n |-> NumDiv(c[col][r], wsum)]],
       G |-> [k \in 1..Len(G) |->
                [r \in 1..Len(G[k]) |-> NumDiv(G[k][r], wsum)]]]

\* Zonotope(c, G) on the matrices of _catWeighted: a centre of one column
\* is stored; a centre of several columns is either refused or stored as
\* it is
ZonoCtorOutcomes(n, c, G, w) ==
  {[kind |-> "averaged", w |-> w, Z |-> Zono(n, c, G)]}
  \cup (IF Len(c) = 1 THEN {} ELSE {ErrorOut("CORA:wrongInputInConstructor")})

\* lines 72-120 for method = 'normGen', closedform = True
AndAveragingOutcomes(Zs, sumofw) ==
  IF Len(Zs) = 0 THEN {ErrorOut("ValueError")}
  ELSE IF sumofw < 0 THEN {ErrorOut("ValueError")}
  ELSE LET w == ClosedFormWeights(Zs, sumofw)
           cG == CatWeighted(Zs, w)
       IN  ZonoCtorOutcomes(ZonoDim(Zs[1]), cG.c, cG.G, w)

\* the lists of zonotopes: any one or two zonotopes of dimension 1, three
\* centred intervals, and a zonotope of dimension 2 alone or twice
ZonoLists ==
  {<<>>}
  \cup SeqsOf(Zonos(1, 2), 1, 2)
  \cup Tuples(3, {Z \in Zonos(1, 1) : Z.c = <<<<0>>>>})
  \cup UNION {{<<Z>>, <<Z, Z>>} : Z \in Zonos(2, 1)}

InitAvg ==
  /\ p1 \in {[kind |-> "zonolist", items |-> Zs] : Zs \in ZonoLists}
  /\ p2 \in {[kind |-> "sumofw", val |-> s] : s \in -1..MaxW}
  /\ S = <<>>
  /\ tol = 0
  /\ pc = "start"
  /\ out = NoObj
  /\ h1 = p1
  /\ h2 = NoObj

\* Z = priv_andAveraging(Z_cell, 'normGen', True, sumofw)
AndAveraging ==
  /\ pc = "start"
  /\ p1.kind = "zonolist"
  /\ out' \in AndAveragingOutcomes(p1.items, p2.val)
  /\ pc' = "done"
  /\ UNCHANGED <<p1, p2, S, tol, h1, h2>>

NextAvg == AndAveraging

SpecAvg == InitAvg /\ [][NextAvg]_vars

\* the call passed the input validation and computed weights
Weighted == pc = "done" /\ Len(p1.items) > 0 /\ p2.val >= 0

\* C23 as stated: for every non-empty list and every accepted sumofw the
\* closed-form weights are well defined, non-negative and sum to sumofw.
C23_WeightsSumToWeightSum ==
  Weighted =>
    LET w == ClosedFormWeights(p1.items, p2.val)
    IN  /\ \A i \in 1..Len(w) : w[i].k = "fin" /\ w[i].num >= 0
        /\ NumSum(w) = Rat(p2.val, 1)

\* the matrix M with every entry halved
Halved(M) == [k \in 1..Len(M) |-> [r \in 1..Len(M[k]) |-> Rat(M[k][r], 2)]]

\* C24 as stated: priv_andAveraging([Z, Z]) with the normGen closed form,
\* for Z with a non-zero generator, uses the weights (0.5, 0.5) and returns
\* a zonotope with the centre of Z that is equal to Z (its generators are
\* those of Z, halved, twice).
C24_SelfAverageIsZ ==
  (pc = "done" /\ Len(p1.items) = 2 /\ p1.items[1] = p1.items[2]
     /\ p2.val = 1 /\ TraceGGt(p1.items[1].G) > 0) =>
    LET Z == p1.items[1]
    IN  /\ out.kind = "averaged"
        /\ out.w = <<Rat(1, 2), Rat(1, 2)>>
        /\ out.Z.c = [k \in 1..1 |-> [r \in 1..Z.n |-> Rat(Z.c[1][r], 1)]]
        /\ out.Z.G = Halved(Z.G) \o Halved(Z.G)

(***************************************************************************)
(* The empty(n) constructors of zonotope, conZonotope and interval.  A     *)
(* matrix is kept as its number of rows and its sequence of columns.       *)
(***************************************************************************)
\* largest dimension passed to a constructor
MaxDim == 8

\* np.zeros((r, k))
ZeroMatrix(r, k) == [rows |-> r, cols |-> [j \in 1..k |-> Zeros(r)]]

\* zonotope/empty.py lines 46-56: n is validated, then c and G are n x 0
ZonotopeEmpty(n, isInt) ==
  IF ~isInt \/ n < 0 THEN ErrorOut("CORA:wrongInputInConstructor")
  ELSE [kind |-> "zonotope", c |-> ZeroMatrix(n, 0), G |-> ZeroMatrix(n, 0)]

\* conZonotope/empty.py lines 46-51: no validation; the centre is
\* np.zeros((n, 1)) for n > 0 and np.zeros((0, 1)) otherwise; np.zeros
\* refuses a shape that is not an integer
ConZonotopeEmpty(n, isInt) ==
  IF n > 0 /\ ~isInt THEN ErrorOut("TypeError")
  ELSE [kind |-> "conZonotope",
        c |-> IF n > 0 THEN ZeroMatrix(n, 1) ELSE ZeroMatrix(0, 1),
        G |-> IF n > 0 THEN ZeroMatrix(n, 0) ELSE ZeroMatrix(0, 0),
        A |-> ZeroMatrix(0, 0), b |-> ZeroMatrix(0, 1)]

\* interval/empty.py lines 35-36: Interval(np.zeros((n, 0))); np.zeros
\* refuses a negative dimension and one that is not an integer
IntervalEmpty(n, isInt) ==
  IF ~isInt THEN ErrorOut("TypeError")
  ELSE IF n < 0 THEN ErrorOut("ValueError")
  ELSE [kind |-> "interval", inf |-> ZeroMatrix(n, 0), sup |-> ZeroMatrix(n, 0)]

EmptyOf(class, n, isInt) ==
  IF class = "zonotope" THEN ZonotopeEmpty(n, isInt)
  ELSE IF class = "conZonotope" THEN ConZonotopeEmpty(n, isInt)
  ELSE IntervalEmpty(n, isInt)

InitCtor ==
  /\ p1 \in {[kind |-> "emptyCall", class |-> cl, n |-> n, isInt |-> t] :
               <<cl, n, t>> \in {"zonotope", "conZonotope", "interval"}
                                \X (-1..MaxDim) \X BOOLEAN}
  /\ p2 = NoObj
  /\ S = <<>>
  /\ tol = 0
  /\ pc = "start"
  /\ out = NoObj
  /\ h1 = NoObj
  /\ h2 = NoObj

\* obj = <class>.empty(n)
EmptyCtor ==
  /\ pc = "start"
  /\ p1.kind = "emptyCall"
  /\ out' = EmptyOf(p1.class, p1.n, p1.isInt)
  /\ pc' = "done"
  /\ UNCHANGED <<p1, p2, S, tol, h1, h2>>

NextCtor == EmptyCtor

SpecCtor == InitCtor /\ [][NextCtor]_vars

\* the ambient dimension of the object: the rows of the centre, or of the
\* bounds of an interval
ObjDim(X) == IF X.kind = "interval" THEN X.inf.rows ELSE X.c.rows

\* C25 as stated: for every n >= 0 each empty(n) returns an object of
\* ambient dimension n holding zero points: no centre column and no
\* generator for the zonotope and the constrained zonotope, zero columns
\* for the interval.
C25_EmptyHoldsNoPoint ==
  (pc = "done" /\ p1.isInt /\ p1.n >= 0) =>
    /\ out.kind = p1.class
    /\ ObjDim(out) = p1.n
    /\ IF out.kind = "interval"
         THEN Len(out.inf.cols) = 0 /\ Len(out.sup.cols) = 0
         ELSE Len(out.c.cols) = 0 /\ Len(out.G.cols) = 0

(***************************************************************************)
(* contSet/contSet/isBounded.py and mtimes.py: the functions of the base   *)
(* class.  A set object is given by its class and the methods that class   *)
(* provides; ownBounded is what its own isBounded method answers.          *)
(***************************************************************************)
SetObject(class, hasB, ownB, hasM) ==
  [kind |-> "contSet", class |-> class,
   hasIsBounded |-> hasB, ownBounded |-> ownB, hasMtimes |-> hasM]

\* what the object's own method returns when it is called
Delegated(method, M, Sx) ==
  [kind |-> "delegated", method |-> method, M |-> M, S |-> Sx]

\* lines 40-42 of isBounded: the body is the raise statement alone
IsBoundedResult(Sx) == ErrorOut("CORA:noops")

\* lines 44-46 of mtimes: the body is the raise statement alone
MtimesResult(M, Sx) == ErrorOut("CORA:noops")

InitBase ==
  /\ p1 \in {SetObject(cl, hb, ob, hm) :
               <<cl, hb, ob, hm>> \in
                 {"ContSet", "Zonotope", "Interval", "Polytope"}
                 \X BOOLEAN \X BOOLEAN \X BOOLEAN}
  /\ p2 \in {[kind |-> "scalar", val |-> v] : v \in -MaxPt..MaxPt}
            \cup {[kind |-> "ndarray", ndim |-> 2, cols |-> <<<<1, 0>>, <<0, 1>>>>]}
  /\ S = <<>>
  /\ tol = 0
  /\ pc = "start"
  /\ out = NoObj
  /\ h1 = p1
  /\ h2 = NoObj

\* res = isBounded(S)
IsBoundedCall ==
  /\ pc = "start"
  /\ p1.kind = "contSet"
  /\ out' = IsBoundedResult(p1)
  /\ pc' = "isBounded"
  /\ UNCHANGED <<p1, p2, S, tol, h1, h2>>

\* res = mtimes(M, S)
MtimesCall ==
  /\ pc = "start"
  /\ p1.kind = "contSet"
  /\ out' = MtimesResult(p2, p1)
  /\ pc' = "mtimes"
  /\ UNCHANGED <<p1, p2, S, tol, h1, h2>>

NextBase == IsBoundedCall \/ MtimesCall

SpecBase == InitBase /\ [][NextBase]_vars

\* C26 as stated: isBounded(S) and mtimes(M, S) hand the call to the
\* object's own method when its class provides one, and raise CORA:noops
\* only when it provides none.
C26_DelegatesWhenProvided ==
  /\ pc = "isBounded" =>
       IF p1.hasIsBounded
         THEN out = Delegated("isBounded", NoObj, p1)
         ELSE out = ErrorOut("CORA:noops")
  /\ pc = "mtimes" =>
       IF p1.hasMtimes
         THEN out = Delegated("mtimes", p2, p1)
         ELSE out = ErrorOut("CORA:noops")

(***************************************************************************)
(* contDynamics/linearSys/linearSys.py: the constructor of LinearSys.      *)
(* Only the shapes of the arguments matter: an argument is None, a name,   *)
(* or an array of 0, 1 or 2 dimensions (r entries, or r rows and c         *)
(* columns).  D, k and F are left at None.                                 *)
(***************************************************************************)
\* largest number of rows or columns of an argument
MaxN == 2

NoneArg == [t |-> "none", ndim |-> 0, r |-> 0, c |-> 0]
NameArg == [t |-> "str", ndim |-> 0, r |-> 0, c |-> 0]
Arr(ndim, r, c) == [t |-> "arr", ndim |-> ndim, r |-> r, c |-> c]
Mat(r, c) == Arr(2, r, c)

\* A.size and A.shape[0]
ArrSize(X) == IF X.ndim = 0 THEN 1 ELSE IF X.ndim = 1 THEN X.r ELSE X.r * X.c

\* lines 108-152: _parse_input_args on the positional arguments args and
\* the keyword arguments kwargs (a function on the keys that were passed)
ParseInputArgs(args, kwargs) ==
  LET named == Len(args) > 0 /\ args[1].t = "str"
      remaining == IF named THEN Tail(args) ELSE args
      pos(i) == IF i <= Len(remaining) THEN remaining[i] ELSE NoneArg
      get(key, i) == IF key \in DOMAIN kwargs THEN kwargs[key] ELSE pos(i)
  IN  [A |-> get("A", 1), B |-> get("B", 2), c |-> get("c", 3),
       C |-> get("C", 4), E |-> get("E", 7)]

\* lines 157-158: the checks are skipped when no positional argument came
ChecksSkipped(n_in) == n_in = 0

\* lines 154-244: _check_input_args; "ok" or the exception raised
CheckInputArgs(m, n_in) ==
  IF ChecksSkipped(n_in) THEN "ok"
  ELSE IF m.A.t = "arr" /\ (m.A.ndim # 2 \/ m.A.r # m.A.c) THEN "ValueError"
  ELSE IF m.c.t = "arr" /\ m.c.ndim > 1 /\ m.c.c # 1 THEN "ValueError"
  ELSE IF m.A.t # "arr" THEN "ok"
  ELSE IF m.c.t = "arr" /\ ArrSize(m.c) # m.A.r THEN "ValueError"
  ELSE IF m.B.t = "arr" /\ m.B.ndim >= 1 /\ m.B.r # m.A.r THEN "ValueError"
  ELSE IF m.E.t = "arr" /\ m.E.ndim >= 1 /\ m.E.r # m.A.r THEN "ValueError"
  ELSE IF m.C.t = "arr" /\ m.C.ndim = 1 /\ m.C.r # m.A.r THEN "ValueError"
  ELSE IF m.C.t = "arr" /\ m.C.ndim = 2 /\ m.C.c # m.A.r THEN "ValueError"
  ELSE "ok"

\* lines 246-352: _compute_properties; the matrices that are stored, or the
\* IndexError of reading shape[0] of an array without dimensions
ComputeProperties(m) ==
  IF (m.A.t = "arr" /\ m.A.ndim = 0) \/ (m.C.t = "arr" /\ m.C.ndim = 0)
    THEN ErrorOut("IndexError")
  ELSE
    LET A == IF m.A.t = "none" THEN Mat(1, 0) ELSE m.A
        states == IF m.A.t = "none" THEN 0 ELSE m.A.r
        B == IF m.B.t = "none"
               THEN (IF ArrSize(A) > 0 THEN Mat(states, 1) ELSE NoneArg)
             ELSE IF m.B.ndim = 1 THEN Mat(m.B.r, 1)
             ELSE IF m.B.ndim = 0 THEN Mat(states, states)
             ELSE m.B
        c == IF m.c.t = "none"
               THEN (IF states > 0 THEN Mat(states, 1) ELSE Mat(1, 0))
             ELSE IF m.c.ndim = 1 THEN Mat(m.c.r, 1) ELSE m.c
        C == IF m.C.t = "none"
               THEN (IF states > 0 THEN Mat(states, states) ELSE Mat(1, 0))
             ELSE IF m.C.ndim = 1 THEN Mat(1, m.C.r) ELSE m.C
        E == IF m.E.t = "none"
               THEN (IF states > 0 THEN Mat(states, 1) ELSE Mat(1, 0))
             ELSE IF m.E.ndim = 0
               THEN (IF states > 0 THEN Mat(states, states) ELSE Mat(1, 0))
             ELSE IF m.E.ndim = 1 THEN Mat(m.E.r, 1) ELSE m.E
    IN  [kind |-> "LinearSys", states |-> states,
         A |-> A, B |-> B, c |-> c, C |-> C, E |-> E]

\* lines 80-101: __init__
LinearSysInit(args, kwargs) ==
  LET m == ParseInputArgs(args, kwargs)
      chk == CheckInputArgs(m, Len(args))
  IN  IF chk # "ok" THEN ErrorOut(chk) ELSE ComputeProperties(m)

\* the positional arguments for the matrices m, up to the last one given
PositionalArgs(m) ==
  LET all == <<m.A, m.B, m.c, m.C, NoneArg, NoneArg, m.E>>
      given == {i \in 1..7 : all[i].t # "none"}
  IN  IF given = {} THEN <<>> ELSE SubSeq(all, 1, MaxOf(given))

\* the keyword arguments for those of the matrices named in keys that are
\* given
KeywordArgs(m, keys) ==
  [key \in {q \in keys : m[q].t # "none"} |-> m[key]]

\* the calls LinearSys(A, B, ...), LinearSys(name, A, B, ...),
\* LinearSys(A=..., B=..., ...) and LinearSys(A, B=..., ...)
CallOf(pattern, m) ==
  IF pattern = "positional"
    THEN [kind |-> "call", args |-> PositionalArgs(m), kwargs |-> <<>>]
  ELSE IF pattern = "named"
    THEN [kind |-> "call", args |-> <<NameArg>> \o PositionalArgs(m),
          kwargs |-> <<>>]
  ELSE IF pattern = "keyword"
    THEN [kind |-> "call", args |-> <<>>,
          kwargs |-> KeywordArgs(m, {"A", "B", "c", "C", "E"})]
  ELSE [kind |-> "call",
        args |-> IF m.A.t = "none" THEN <<>> ELSE <<m.A>>,
        kwargs |-> KeywordArgs(m, {"B", "c", "C", "E"})]

Arrays0to2 ==
  {Arr(0, 0, 0)} \cup {Arr(1, r, 0) : r \in 1..MaxN}
  \cup {Mat(r, c) : <<r, c>> \in (1..MaxN) \X (1..MaxN)}

ArgChoices ==
  [A : {NoneArg} \cup Arrays0to2,
   B : {NoneArg} \cup Arrays0to2,
   c : {NoneArg, Arr(0, 0, 0)} \cup {Arr(1, r, 0) : r \in 1..MaxN}
       \cup {Mat(r, 1) : r \in 1..MaxN} \cup {Mat(1, r) : r \in 1..MaxN},
   C : {NoneArg, Arr(0, 0, 0)} \cup {Arr(1, r, 0) : r \in 1..MaxN}
       \cup {Mat(1, r) : r \in 1..MaxN},
   E : {NoneArg} \cup {Mat(r, 1) : r \in 1..MaxN}]

InitSys ==
  /\ p1 \in {CallOf(pattern, m) :
               <<pattern, m>> \in {"positional", "named", "keyword", "mixed"}
                                  \X ArgChoices}
  /\ p2 = NoObj
  /\ S = <<>>
  /\ tol = 0
  /\ pc = "start"
  /\ out = NoObj
  /\ h1 = NoObj
  /\ h2 = NoObj

\* sys = LinearSys(*args, **kwargs)
NewLinearSys ==
  /\ pc = "start"
  /\ p1.kind = "call"
  /\ out' = LinearSysInit(p1.args, p1.kwargs)
  /\ pc' = "done"
  /\ UNCHANGED <<p1, p2, S, tol, h1, h2>>

NextSys == NewLinearSys

SpecSys == InitSys /\ [][NextSys]_vars

\* A is square n x n, B and E have n rows, c has n entries, C has n columns
ConsistentShapes(sys) ==
  /\ sys.A.ndim = 2 /\ sys.A.r = sys.A.c
  /\ sys.B.t = "arr" /\ sys.B.ndim = 2 /\ sys.B.r = sys.A.r
  /\ sys.E.ndim = 2 /\ sys.E.r = sys.A.r
  /\ ArrSize(sys.c) = sys.A.r
  /\ sys.C.ndim = 2 /\ sys.C.c = sys.A.r

\* the call supplied the state matrix
SuppliesA(call) == ParseInputArgs(call.args, call.kwargs).A.t = "arr"

\* C27: every LinearSys object the constructor returns for a call supplying
\* the matrices has consistent shapes, whatever the calling pattern, and a
\* call that is refused is refused with a ValueError.
C27_ShapesConsistent ==
  (pc = "done" /\ SuppliesA(p1)) =>
    /\ out.kind = "LinearSys" => ConsistentShapes(out)
    /\ out.kind = "error" => out.id = "ValueError"

(***************************************************************************)
(* g/classes/simResult/monitorSTL.py.  A simulation result holds the       *)
(* lists t and x of its trajectories: t[j] the sample times and x[j] the   *)
(* samples of one state variable.  An STL formula compares the state with  *)
(* a value, under an optional temporal operator and an optional negation.  *)
(***************************************************************************)
\* largest number of samples of a trajectory
MaxSamples == 3

Trajectory(t, x) == [t |-> t, x |-> x]
SimResult(trajs) == [kind |-> "simResult", trajs |-> trajs]

\* simRes.isemptyobject(): no trajectory is stored
SimIsEmptyObject(simRes) == simRes.trajs = <<>>

\* lines 78-85: the data of trajectory j passes the basic checks
TrajectoryPasses(tr) ==
  /\ Len(tr.t) # 0
  /\ Len(tr.x) # 0
  /\ ~(tr.t[Len(tr.t)] <= tr.t[1])

\* lines 42-98: monitorSTL(simRes, eq)
MonitorSTL(simRes, eq) ==
  IF SimIsEmptyObject(simRes) THEN FALSE
  ELSE \A j \in 1..Len(simRes.trajs) : TrajectoryPasses(simRes.trajs[j])

Stl(temporal, neg, op, v) ==
  [kind |-> "stl", temporal |-> temporal, neg |-> neg, op |-> op, v |-> v]

\* ~eq
StlNot(eq) == [eq EXCEPT !.neg = ~eq.neg]

\* the trajectory satisfies eq at its first sample
TrajSatisfies(tr, eq) ==
  LET atom(i) == IF eq.op = "gt" THEN tr.x[i] > eq.v ELSE tr.x[i] < eq.v
      inner == IF eq.temporal = "finally" THEN \E i \in 1..Len(tr.x) : atom(i)
               ELSE IF eq.temporal = "globally"
                 THEN \A i \in 1..Len(tr.x) : atom(i)
               ELSE atom(1)
  IN  inner # eq.neg

\* every trajectory of the simulation result satisfies eq
Satisfies(simRes, eq) ==
  \A j \in 1..Len(simRes.trajs) : TrajSatisfies(simRes.trajs[j], eq)

\* non-empty, with samples at increasing times in every trajectory
ValidSim(simRes) ==
  /\ simRes.trajs # <<>>
  /\ \A j \in 1..Len(simRes.trajs) :
       LET tr == simRes.trajs[j]
       IN  /\ Len(tr.t) = Len(tr.x)
           /\ Len(tr.t) >= 2
           /\ \A i \in 1..(Len(tr.t) - 1) : tr.t[i] < tr.t[i + 1]

TimeVecs ==
  {<<>>, <<1, 0>>} \cup {[i \in 1..k |-> i - 1] : k \in 1..MaxSamples}

Trajectories ==
  {Trajectory(t, x) : <<t, x>> \in
     {q \in TimeVecs \X SeqsOf(Off, 0, MaxSamples) :
        Len(q[2]) = Len(q[1]) \/ Len(q[2]) = 0}}

\* a second trajectory: a valid one at rest, or one without samples
SecondTrajectories ==
  {Trajectory(<<0, 1>>, <<0, 0>>), Trajectory(<<0, 1>>, <<1, -1>>),
   Trajectory(<<>>, <<>>)}

SimResults ==
  {SimResult(<<>>)} \cup {SimResult(<<tr>>) : tr \in Trajectories}
  \cup {SimResult(<<tr, tr2>>) :
          <<tr, tr2>> \in Trajectories \X SecondTrajectories}

Formulas ==
  {Stl(temporal, neg, op, v) : <<temporal, neg, op, v>> \in
     {"none", "finally", "globally"} \X BOOLEAN \X {"gt", "lt"} \X Off}

InitMon ==
  /\ p1 \in SimResults
  /\ p2 \in Formulas
  /\ S = <<>>
  /\ tol = 0
  /\ pc = "start"
  /\ out = NoObj
  /\ h1 = NoObj
  /\ h2 = NoObj

\* res = monitorSTL(simRes, eq)
MonitorFormula ==
  /\ pc = "start"
  /\ p1.kind = "simResult"
  /\ out' = [kind |-> "res", val |-> MonitorSTL(p1, p2)]
  /\ pc' = "monitored"
  /\ UNCHANGED <<p1, p2, S, tol, h1, h2>>

\* res = monitorSTL(simRes, ~eq), on the same simulation result
MonitorNegation ==
  /\ pc = "monitored"
  /\ h1' = [kind |-> "res", val |-> MonitorSTL(p1, StlNot(p2))]
  /\ pc' = "done"
  /\ UNCHANGED <<p1, p2, S, tol, out, h2>>

NextMon == MonitorFormula \/ MonitorNegation

SpecMon == InitMon /\ [][NextMon]_vars

\* C28: monitorSTL returns true only if the simulation result satisfies the
\* formula, so that on one valid non-empty simulation result a formula the
\* trajectories satisfy and its negation, which they violate, get different
\* results.
C28_ResultDependsOnFormula ==
  (pc = "done" /\ ValidSim(p1)) =>
    /\ out.val => Satisfies(p1, p2)
    /\ h1.val => Satisfies(p1, StlNot(p2))
    /\ (Satisfies(p1, p2) /\ ~Satisfies(p1, StlNot(p2))) => out.val # h1.val

(***************************************************************************)
(* contSet/zonotope/convHull_.py.  The second operand is absent, a         *)
(* zonotope, a set of another class (with its dimension, its emptiness and *)
(* whether its precedence is below the one of zonotopes) or a numeric      *)
(* vector.                                                                 *)
(***************************************************************************)
OtherSet(n, empty, lower) ==
  [kind |-> "contSet", n |-> n, empty |-> empty, lower |-> lower]
Numeric(v) == [kind |-> "numeric", n |-> Len(v), v |-> v]

\* hasattr(S, 'dim'), hasattr(S, 'precedence'), hasattr(S, 'isemptyobject')
IsContSet(Sx) == Sx.kind \in {"zonotope", "contSet"}

\* S.representsa_('emptySet', 1e-15)
RepresentsEmptySet(Sx) ==
  IF Sx.kind = "zonotope" THEN ZonoIsEmpty(Sx) ELSE Sx.empty

\* S.convHull(Z_out, method) of a class of lower precedence
OtherConvHull(Sx, Z) ==
  IF RepresentsEmptySet(Sx) THEN Z
  ELSE IF ZonoIsEmpty(Z) THEN Sx
  ELSE [kind |-> "hull", of |-> <<Sx, Z>>]

\* line 75: Zonotope(S, np.array([]).reshape(len(S), 0)) for an operand that
\* is no zonotope: the vector as a zonotope without generators; for a set
\* either len(S) or the constructor raises, or the set is stored as centre
ZonotopeWithoutGenerators(Sx) ==
  IF Sx.kind = "numeric" THEN {Zono(Sx.n, <<Sx.v>>, <<>>)}
  ELSE {ErrorOut("TypeError"), Zono(Sx.n, Sx, <<>>)}

\* lines 78-82: S_zono
AsZonotope(Sx) ==
  IF Sx.kind = "zonotope" THEN Sx ELSE [kind |-> "zonotope", from |-> Sx]

\* line 84: Z_out.enclose(S_zono)
EncloseCall(Z, Sz) == [kind |-> "enclose", of |-> <<Z, Sz>>]

\* lines 87-109: _reorder_numeric, for a first operand that is a zonotope
ReorderNumeric(Z, Sx) == <<Z, Sx>>

\* lines 35-84: the values convHull_(Z, S) can return, or the error raised
ConvHullOutcomes(Z, Sx) ==
  IF Sx = NoObj THEN {Z}
  ELSE
    LET Z_out == ReorderNumeric(Z, Sx)[1]
        S2 == ReorderNumeric(Z, Sx)[2]
    IN  IF IsContSet(S2) /\ S2.n # ZonoDim(Z_out)
          THEN {ErrorOut("CORA:dimensionMismatch")}
        ELSE IF S2.kind = "contSet" /\ S2.lower
          THEN {OtherConvHull(S2, Z_out)}
        ELSE IF IsContSet(S2) /\ RepresentsEmptySet(S2) THEN {Z_out}
        ELSE IF ZonoIsEmpty(Z_out)
          THEN (IF S2.kind = "zonotope" THEN {S2}
                ELSE ZonotopeWithoutGenerators(S2))
        ELSE {EncloseCall(Z_out, AsZonotope(S2))}

HullFirst == {ZonoEmpty(n) : n \in 1..2} \cup Zonos(1, 1) \cup Zonos(2, 1)

HullSecond ==
  {NoObj} \cup {ZonoEmpty(n) : n \in 1..2} \cup Zonos(1, 0) \cup Zonos(2, 0)
  \cup {OtherSet(n, empty, lower) :
          <<n, empty, lower>> \in (1..2) \X BOOLEAN \X BOOLEAN}
  \cup {Numeric(v) : v \in Tuples(1, -MaxPt..MaxPt) \cup Tuples(2, -MaxPt..MaxPt)}

InitHull ==
  /\ p1 \in HullFirst
  /\ p2 \in HullSecond
  /\ S = <<>>
  /\ tol = 0
  /\ pc = "start"
  /\ out = NoObj
  /\ h1 = NoObj
  /\ h2 = NoObj

\* convHull_(Z, S)
ConvHull ==
  /\ pc = "start"
  /\ p1.kind = "zonotope"
  /\ \E o \in ConvHullOutcomes(p1, p2) : out' = o
  /\ pc' = "hull"
  /\ UNCHANGED <<p1, p2, S, tol, h1, h2>>

NextHull == ConvHull

SpecHull == InitHull /\ [][NextHull]_vars

\* C29: the empty set is the identity of convHull_ on a zonotope Z and a set
\* S: without a second operand Z is returned; sets of different dimensions
\* raise CORA:dimensionMismatch whatever their emptiness; for equal
\* dimensions Z is returned when S is empty and S when Z is empty, and
\* enclose is not called.
C29_EmptyIsIdentity ==
  pc = "hull" =>
    /\ p2 = NoObj => out = p1
    /\ (IsContSet(p2) /\ p2.n # ZonoDim(p1)) =>
         out = ErrorOut("CORA:dimensionMismatch")
    /\ (IsContSet(p2) /\ p2.n = ZonoDim(p1) /\ RepresentsEmptySet(p2)) =>
         out = p1
    /\ (IsContSet(p2) /\ p2.n = ZonoDim(p1) /\ ~RepresentsEmptySet(p2)
        /\ ZonoIsEmpty(p1)) => out = p2

(***************************************************************************)
(* g/classes/reachSet/updateTime.py.  A reachSet object holds the list     *)
(* timePoint['time'] (hasTP tells whether the entry exists) and the list   *)
(* timeInterval['time'] of interval objects; updateTime changes the        *)
(* objects in place, one after the other.                                  *)
(***************************************************************************)
\* largest time value
MaxTime == 1
\* largest length of a time vector
MaxTimes == 2

TimeIv(lo, hi) == [inf |-> lo, sup |-> hi]
ReachObj(hasTP, tp, ti) == [hasTP |-> hasTP, tp |-> tp, ti |-> ti]

\* line 69: Interval(time[j], time[j] + width)
MovedInterval(old, t) == TimeIv(t, t + (old.sup - old.inf))

\* lines 57-73: the time intervals of one object after the update
UpdatedIntervals(ti, time) ==
  IF ti # <<>> /\ Len(time) >= Len(ti)
    THEN [j \in 1..Len(ti) |-> MovedInterval(ti[j], time[j])]
  ELSE ti

\* lines 50-54: the object has time points and their number differs from the
\* length of the new vector
LengthMismatch(o, time) == o.hasTP /\ Len(time) # Len(o.tp)

\* lines 47-73: one pass of the loop on an object that passes the test
UpdatedObject(o, time) ==
  ReachObj(o.hasTP, IF o.hasTP THEN time ELSE o.tp,
           UpdatedIntervals(o.ti, time))

\* lines 46-73: the objects after the loop and whether it raised; the loop
\* stops at the first object failing the length test, the objects before it
\* are already updated
UpdateLoop(objs, time) ==
  LET F[i \in 0..Len(objs)] ==
        IF i = 0 THEN [objs |-> objs, raised |-> FALSE]
        ELSE IF F[i - 1].raised THEN F[i - 1]
        ELSE IF LengthMismatch(objs[i], time)
          THEN [objs |-> F[i - 1].objs, raised |-> TRUE]
        ELSE [objs |-> [F[i - 1].objs EXCEPT ![i] = UpdatedObject(objs[i], time)],
              raised |-> FALSE]
  IN  F[Len(objs)]

\* lines 28-75: updateTime(R, time); the objects after the call and the
\* value returned or the error raised
UpdateTimeResult(R, time) ==
  IF time.kind # "list"
    THEN [objs |-> R.objs, out |-> ErrorOut("ValueError")]
  ELSE
    LET r == UpdateLoop(R.objs, time.v)
    IN  [objs |-> r.objs,
         out |-> IF r.raised THEN ErrorOut("ValueError")
                 ELSE [kind |-> "reachSet", isList |-> R.isList,
                       objs |-> r.objs]]

TimeVectors == SeqsOf(0..MaxTime, 0, MaxTimes)

IntervalLists == SeqsOf({TimeIv(0, 1), TimeIv(1, 3)}, 0, MaxTimes)

ReachObjs ==
  {ReachObj(FALSE, <<>>, ti) : ti \in IntervalLists}
  \cup {ReachObj(TRUE, tp, ti) : <<tp, ti>> \in TimeVectors \X IntervalLists}

\* the second object of a list
SecondReachObjs ==
  {ReachObj(TRUE, [i \in 1..k |-> 0], ti) :
     <<k, ti>> \in (0..MaxTimes) \X {<<>>, <<TimeIv(0, 1)>>}}

ReachInputs ==
  {[kind |-> "reachSet", isList |-> l, objs |-> <<o>>] :
     <<l, o>> \in BOOLEAN \X ReachObjs}
  \cup {[kind |-> "reachSet", isList |-> TRUE, objs |-> <<o, o2>>] :
          <<o, o2>> \in ReachObjs \X SecondReachObjs}

InitTime ==
  /\ p1 \in ReachInputs
  /\ p2 \in {[kind |-> "list", v |-> v] : v \in TimeVectors}
            \cup {[kind |-> "scalar", v |-> <<>>]}
  /\ S = <<>>
  /\ tol = 0
  /\ pc = "start"
  /\ out = NoObj
  /\ h1 = NoObj
  /\ h2 = NoObj

\* R = updateTime(R, time); h1 holds the objects of the input after the call
UpdateTime ==
  /\ pc = "start"
  /\ p1.kind = "reachSet"
  /\ LET r == UpdateTimeResult(p1, p2)
     IN  /\ out' = r.out
         /\ h1' = [kind |-> "objects", objs |-> r.objs]
  /\ pc' = "updated"
  /\ UNCHANGED <<p1, p2, S, tol, h2>>

NextTime == UpdateTime

SpecTime == InitTime /\ [][NextTime]_vars

\* C30: updateTime is all-or-nothing: when it raises ValueError no object of
\* the input has a changed time; when it returns, every object's time
\* points are the new vector and every time interval has its lower bound at
\* the new time and its width unchanged.
C30_AllOrNothing ==
  pc = "updated" =>
    /\ out.kind = "error" => (out.id = "ValueError" /\ h1.objs = p1.objs)
    /\ out.kind # "error" =>
         \A i \in 1..Len(p1.objs) :
           /\ p1.objs[i].hasTP => h1.objs[i].tp = p2.v
           /\ Len(h1.objs[i].ti) = Len(p1.objs[i].ti)
           /\ \A j \in 1..Len(p1.objs[i].ti) :
                /\ j <= Len(p2.v)
                /\ h1.objs[i].ti[j] = MovedInterval(p1.objs[i].ti[j], p2.v[j])

====
